---------------------------- MODULE Spec2Model ----------------------------
(***************************************************************************)
(* TREC run construction, validation, persistence and scoring of the       *)
(* evaluation CLI (backend/eval/eval_cli).                                  *)
(*                                                                         *)
(* Strings are sequences of one-character strings, so that formatting a    *)
(* row into a TSV line and parsing the line back are computed character by *)
(* character.  Scores are fixed-point numbers in units of 1e-9 (NanoScale  *)
(* units make 1.0); KPI values and targets are in units of 1e-3.           *)
(***************************************************************************)
EXTENDS Integers, Sequences, FiniteSets, TLC

VARIABLES
    pc,         \* position of the running command / function under study
    cmd,        \* the CLI command being run (pipeline specification)
    responses,  \* dict[str, QueryResult] as a sequence of [query_id, segments]
    run_id,     \* the run_id argument
    run,        \* the TrecRun rows (a sequence of TrecRunRow records)
    errors,     \* the list returned by TrecRun.validate_format
    file,       \* the run file: a sequence of lines (without the newline)
    loaded,     \* the rows returned by read_trec_run
    skipped,    \* read_trec_run's skipped_lines counter
    qrels,      \* Qrels.entries
    result,     \* the value returned by the function under study
    log,        \* the steps a command has performed, in order
    mode,       \* run-all: index of the retrieval mode being processed
    metrics,    \* the flat metric-name -> value mapping
    targets,    \* config.metrics.targets
    report,     \* the EvaluationReport built
    input       \* the arguments and environment of the function under study

vars == <<pc, cmd, responses, run_id, run, errors, file, loaded, skipped,
          qrels, result, log, mode, metrics, targets, report, input>>

\* the variables of the KPI analysis
kpiVars == <<metrics, targets, report>>

NoValue == "none"

-----------------------------------------------------------------------------
(* Bounds of the model                                                     *)

MaxSegs == 2        \* segments over all queries of a small responses mapping
OverCap == 1        \* how far a long segment list exceeds the 100-row cap
MaxHitRows == 11    \* rows of one query of a run given to the hit-rate metric
MaxKpiNames == 2    \* metrics of the display set that the analysed inputs mention
MaxRows == 2        \* rows of a run given to the validator; ranks go one beyond

-----------------------------------------------------------------------------
(* Program constants                                                       *)

MaxResultsPerQuery == 100   \* query_result.segments[:100]
NanoScale == 1000000000     \* score units per 1.0
TopK == 10                  \* sorted(results, key=rank)[:10]
Epsilon == 1                \* eps = 1e-9 of the shared run model, in score units
MicroScale == 1000000       \* 10^6: f"{score:.6f}" prints 6 decimals
MicroPerNano == NanoScale \div MicroScale   \* score units per printed 1e-6

-----------------------------------------------------------------------------
(* Characters and strings                                                  *)

TAB == "\t"
SPACE == " "
DigitChars == <<"0", "1", "2", "3", "4", "5", "6", "7", "8", "9">>
IsDigit(c) == \E i \in 1..10 : DigitChars[i] = c
DigitVal(c) == (CHOOSE i \in 1..10 : DigitChars[i] = c) - 1
IsSpace(c) == c \in {SPACE, TAB}

Abs(n) == IF n < 0 THEN -n ELSE n

RECURSIVE NatToStr(_)
\* str(n) for n >= 0
NatToStr(n) ==
    IF n < 10 THEN <<DigitChars[n + 1]>>
    ELSE NatToStr(n \div 10) \o <<DigitChars[(n % 10) + 1]>>

\* str(n) / f"{n}" of an int
IntToStr(n) == IF n < 0 THEN <<"-">> \o NatToStr(-n) ELSE NatToStr(n)

RECURSIVE ZeroPad(_, _)
\* left-pad a digit string with zeros to the given width
ZeroPad(s, width) == IF Len(s) >= width THEN s ELSE ZeroPad(<<"0">> \o s, width)

\* round-half-even of n / d for n >= 0, d > 0
RoundHalfEven(n, d) ==
    LET q == n \div d
        r == n % d
    IN  IF 2 * r < d THEN q
        ELSE IF 2 * r > d THEN q + 1
        ELSE IF q % 2 = 0 THEN q ELSE q + 1

\* f"{score:.6f}": sign, integer part, '.', exactly six decimals
FormatFixed6(score) ==
    LET micro == RoundHalfEven(Abs(score), MicroPerNano)
    IN  (IF score < 0 THEN <<"-">> ELSE <<>>)
        \o NatToStr(micro \div MicroScale)
        \o <<".">>
        \o ZeroPad(NatToStr(micro % MicroScale), 6)

RECURSIVE LStrip(_)
LStrip(s) == IF s # <<>> /\ IsSpace(Head(s)) THEN LStrip(Tail(s)) ELSE s

RECURSIVE RStrip(_)
RStrip(s) ==
    IF s # <<>> /\ IsSpace(s[Len(s)]) THEN RStrip(SubSeq(s, 1, Len(s) - 1)) ELSE s

\* str.strip()
Strip(s) == LStrip(RStrip(s))

RECURSIVE SplitOn(_, _, _)
\* str.split(sep): cur is the field being collected
SplitOn(s, sep, cur) ==
    IF s = <<>> THEN <<cur>>
    ELSE IF Head(s) = sep THEN <<cur>> \o SplitOn(Tail(s), sep, <<>>)
    ELSE SplitOn(Tail(s), sep, Append(cur, Head(s)))

Split(s, sep) == SplitOn(s, sep, <<>>)

RECURSIVE JoinWith(_, _)
\* sep.join(fields)
JoinWith(fields, sep) ==
    IF fields = <<>> THEN <<>>
    ELSE IF Len(fields) = 1 THEN fields[1]
    ELSE fields[1] \o <<sep>> \o JoinWith(Tail(fields), sep)

RECURSIVE Concat(_)
\* the concatenation of a sequence of sequences
Concat(seqs) == IF seqs = <<>> THEN <<>> ELSE Head(seqs) \o Concat(Tail(seqs))

RECURSIVE DigitsToNat(_, _)
DigitsToNat(s, acc) ==
    IF s = <<>> THEN acc ELSE DigitsToNat(Tail(s), 10 * acc + DigitVal(Head(s)))

AllDigits(s) == \A i \in 1..Len(s) : IsDigit(s[i])

\* the sign of a numeric literal and the rest of it
SignOf(s) == IF s # <<>> /\ Head(s) = "-" THEN -1 ELSE 1
Unsigned(s) == IF s # <<>> /\ Head(s) \in {"-", "+"} THEN Tail(s) ELSE s

\* int(text): surrounding whitespace, an optional sign, at least one digit;
\* anything else raises ValueError (ok = FALSE)
ParseInt(text) ==
    LET body == Unsigned(Strip(text))
    IN  IF body # <<>> /\ AllDigits(body)
        THEN [ok |-> TRUE, val |-> SignOf(Strip(text)) * DigitsToNat(body, 0)]
        ELSE [ok |-> FALSE, val |-> 0]

RECURSIVE PadRight(_, _)
PadRight(s, width) == IF Len(s) >= width THEN s ELSE PadRight(Append(s, "0"), width)

\* float(text) for decimal literals: whitespace, sign, digits with at most one
\* '.', at least one digit; the value in score units (nine decimals kept)
ParseFloat(text) ==
    LET body == Unsigned(Strip(text))
        parts == Split(body, ".")
        whole == parts[1]
        frac == IF Len(parts) = 2 THEN parts[2] ELSE <<>>
        wellFormed == /\ Len(parts) \in {1, 2}
                      /\ AllDigits(whole) /\ AllDigits(frac)
                      /\ Len(whole) + Len(frac) > 0
        nano == DigitsToNat(SubSeq(PadRight(frac, 9), 1, 9), 0)
    IN  IF wellFormed
        THEN [ok |-> TRUE,
              val |-> SignOf(Strip(text)) * (DigitsToNat(whole, 0) * NanoScale + nano)]
        ELSE [ok |-> FALSE, val |-> 0]

-----------------------------------------------------------------------------
(* Run rows: eval_cli/models/runs.py                                       *)

\* TrecRunRow(query_id, doc_id, rank, score, run_id), q0 defaulting to "Q0"
TrecRunRow(query_id, q0, doc_id, rank, score, rid) ==
    [query_id |-> query_id, q0 |-> q0, doc_id |-> doc_id, rank |-> rank,
     score |-> score, run_id |-> rid]

Q0 == <<"Q", "0">>

\* the field constraints of TrecRunRow: rank gt 0 (scores of the model are
\* finite numbers)
RowValid(rank, score) == rank > 0

\* mutant: the fields are joined with spaces
to_trec_line_spaces(row) ==
    JoinWith(<<row.query_id, row.q0, row.doc_id, IntToStr(row.rank),
               FormatFixed6(row.score), row.run_id>>, SPACE)

\* TrecRunRow.to_trec_line
to_trec_line(row) ==
    JoinWith(<<row.query_id, row.q0, row.doc_id, IntToStr(row.rank),
               FormatFixed6(row.score), row.run_id>>, TAB)

-----------------------------------------------------------------------------
(* TrecRun.validate_format: eval_cli/models/runs.py                        *)

Indices(seq) == [i \in 1..Len(seq) |-> i]

\* the keys of a dict filled row by row: query ids in order of first appearance
QueryOrder(rows) ==
    LET firsts == SelectSeq(Indices(rows), LAMBDA i :
                      \A j \in 1..(i - 1) : rows[j].query_id # rows[i].query_id)
    IN  [k \in 1..Len(firsts) |-> rows[firsts[k]].query_id]

\* mutant: the rows are not grouped by query
QueryGroupAll(rows, qid) == rows

\* query_rows[qid]: the rows of the query, in run order
QueryGroup(rows, qid) == SelectSeq(rows, LAMBDA r : r.query_id = qid)

\* mutant: the rows are checked in run order, unsorted
SortedByRankUnsorted(rows) == rows

\* sorted(rows, key=lambda r: r.rank): stable, equal ranks keep their order
SortedByRank(rows) ==
    LET before(i) == Cardinality({j \in 1..Len(rows) :
                        \/ rows[j].rank < rows[i].rank
                        \/ (rows[j].rank = rows[i].rank /\ j < i)})
    IN  [p \in 1..Len(rows) |->
            rows[CHOOSE i \in 1..Len(rows) : before(i) = p - 1]]

\* sorted(S) of a set of integers, as a list
SortedList(S) ==
    [p \in 1..Cardinality(S) |->
        CHOOSE x \in S : Cardinality({y \in S : y < x}) = p - 1]

\* "Query {qid} has {count} results (max 100)", one per query over the cap
CountErrors(rows) ==
    LET order == QueryOrder(rows)
        over == SelectSeq(order, LAMBDA q :
                    Len(QueryGroup(rows, q)) > MaxResultsPerQuery)
    IN  [k \in 1..Len(over) |->
            [kind |-> "too_many_results", qid |-> over[k],
             count |-> Len(QueryGroup(rows, over[k]))]]

\* "Query {qid} has duplicate rank {rank}": one per row whose rank an earlier
\* row of the query already has
DuplicateRankErrors(rows) ==
    LET dups == SelectSeq(Indices(rows), LAMBDA i :
                    \E j \in 1..(i - 1) : /\ rows[j].query_id = rows[i].query_id
                                          /\ rows[j].rank = rows[i].rank)
    IN  [k \in 1..Len(dups) |->
            [kind |-> "duplicate_rank", qid |-> rows[dups[k]].query_id,
             rank |-> rows[dups[k]].rank]]

\* "Query {qid} has duplicate ranks: [...]" for the sorted rows of one query
DuplicateRanksError(qid, sorted) ==
    LET ranks == {sorted[i].rank : i \in 1..Len(sorted)}
        duplicates == {sorted[i].rank : i \in {i \in 1..Len(sorted) :
                          \E j \in 1..Len(sorted) :
                              j # i /\ sorted[j].rank = sorted[i].rank}}
    IN  IF Len(sorted) # Cardinality(ranks)
        THEN <<[kind |-> "duplicate_ranks", qid |-> qid,
                ranks |-> SortedList(duplicates)]>>
        ELSE <<>>

\* mutant: the expected ranks start from 0, range(len(sorted_rows))
MissingRanksErrorFromZero(qid, sorted) ==
    LET expected_ranks == 0..(Len(sorted) - 1)
        actual_ranks == {sorted[i].rank : i \in 1..Len(sorted)}
        missing == expected_ranks \ actual_ranks
    IN  IF missing # {}
        THEN <<[kind |-> "missing_ranks", qid |-> qid,
                ranks |-> SortedList(missing)]>>
        ELSE <<>>

\* "Query {qid} has missing ranks: [...]": the ranks of 1..N no row has
MissingRanksError(qid, sorted) ==
    LET expected_ranks == 1..Len(sorted)
        actual_ranks == {sorted[i].rank : i \in 1..Len(sorted)}
        consecutive == /\ actual_ranks = expected_ranks
                       /\ Cardinality(actual_ranks) = Len(sorted)
        missing == expected_ranks \ actual_ranks
    IN  IF ~consecutive /\ missing # {}
        THEN <<[kind |-> "missing_ranks", qid |-> qid,
                ranks |-> SortedList(missing)]>>
        ELSE <<>>

\* the comparison of two adjacent scores: an error when the later is larger
ScoreIncreases(previous, current) == previous < current

\* "Query {qid} has increasing scores: rank .. score .. < rank .. score ..",
\* one per adjacent pair of the sorted rows whose score increases
MonotonicityErrors(qid, sorted) ==
    LET bad == SelectSeq(Indices(sorted), LAMBDA i :
                   /\ i < Len(sorted)
                   /\ ScoreIncreases(sorted[i].score, sorted[i + 1].score))
    IN  [k \in 1..Len(bad) |->
            [kind |-> "increasing_scores", qid |-> qid,
             rank1 |-> sorted[bad[k]].rank,
             score1 |-> FormatFixed6(sorted[bad[k]].score),
             rank2 |-> sorted[bad[k] + 1].rank,
             score2 |-> FormatFixed6(sorted[bad[k] + 1].score)]]

\* the checks of one query of the loop over query_rows.items()
QueryErrors(rows, qid) ==
    LET sorted_rows == SortedByRank(QueryGroup(rows, qid))
    IN  DuplicateRanksError(qid, sorted_rows)
        \o MissingRanksError(qid, sorted_rows)
        \o MonotonicityErrors(qid, sorted_rows)

\* TrecRun.validate_format(): the list of errors, in the order appended
validate_format(rows) ==
    LET order == QueryOrder(rows)
    IN  CountErrors(rows)
        \o DuplicateRankErrors(rows)
        \o Concat([k \in 1..Len(order) |-> QueryErrors(rows, order[k])])

-----------------------------------------------------------------------------
(* Building, writing and reading runs: eval_cli/io/runs.py                 *)

\* mutant: enumerate without start=1
RankOfFromZero(i) == i - 1

\* rank of the row built from the i-th segment: enumerate(..., start=1)
RankOf(i) == i

\* mutant: the slice [:100] is dropped
QueryRowsNoCap(query_id, segments, rid) ==
    [i \in 1..Len(segments) |->
        TrecRunRow(query_id, Q0, segments[i].segment_id, RankOf(i),
                   segments[i].score, rid)]

\* the rows of one query: the first 100 segments in the given order
QueryRows(query_id, segments, rid) ==
    LET kept == SubSeq(segments, 1,
                       IF Len(segments) < MaxResultsPerQuery
                       THEN Len(segments) ELSE MaxResultsPerQuery)
    IN  [i \in 1..Len(kept) |->
            TrecRunRow(query_id, Q0, kept[i].segment_id, RankOf(i),
                       kept[i].score, rid)]

\* the loop over responses.items(): the rows of each query, in dict order
BuildRows(resp, rid) ==
    Concat([k \in 1..Len(resp) |->
                QueryRows(resp[k].query_id, resp[k].segments, rid)])

\* build_trec_run(responses, run_id, metadata).rows
build_trec_run(resp, rid) == BuildRows(resp, rid)

\* write_trec_run: one line per row, in row order
write_trec_run(rows) == [i \in 1..Len(rows) |-> to_trec_line(rows[i])]

\* one line of read_trec_run: the row it yields, or skipped
ReadLine(line) ==
    LET parts == Split(Strip(line), TAB)
        rank == ParseInt(parts[4])
        score == ParseFloat(parts[5])
    IN  IF Len(parts) # 6 THEN [ok |-> FALSE]
        ELSE IF ~rank.ok \/ ~score.ok THEN [ok |-> FALSE]
        ELSE IF ~RowValid(rank.val, score.val) THEN [ok |-> FALSE]
        ELSE [ok |-> TRUE,
              row |-> TrecRunRow(parts[1], parts[2], parts[3], rank.val,
                                 score.val, parts[6])]

\* the loop of read_trec_run over the lines of the file, in file order
ReadLines(lines) ==
    LET parsed == [i \in 1..Len(lines) |-> ReadLine(lines[i])]
        kept == SelectSeq(parsed, LAMBDA r : r.ok)
    IN  [rows |-> [i \in 1..Len(kept) |-> kept[i].row],
         skipped_lines |-> Len(lines) - Len(kept)]

\* read_trec_run(file_path): the rows parsed and the number of lines skipped
read_trec_run(lines) == ReadLines(lines)

-----------------------------------------------------------------------------
(* Relevance judgements and custom metrics: eval_cli/io/qrels.py,          *)
(* eval_cli/scoring/custom_metrics.py                                      *)

QrelEntry(query_id, doc_id, relevance) ==
    [query_id |-> query_id, doc_id |-> doc_id, relevance |-> relevance]

\* Qrels.get_relevant_docs(query_id)
get_relevant_docs(entries, query_id) ==
    {entries[i].doc_id : i \in {i \in 1..Len(entries) :
        entries[i].query_id = query_id /\ entries[i].relevance > 0}}

\* {row.doc_id for row in sorted(results, key=lambda x: x.rank)[:10]}
Top10Docs(results) ==
    LET sorted == SortedByRank(results)
    IN  {sorted[i].doc_id : i \in 1..(IF Len(sorted) < TopK THEN Len(sorted) ELSE TopK)}

\* a fraction successful / total as the float division gives it
Ratio(num, den) == [num |-> num, den |-> den]
Zero == Ratio(0, 1)

\* compute_hitrate_10(trec_run, qrels)
compute_hitrate_10(rows, entries) ==
    LET order == QueryOrder(rows)
        hit(q) == LET relevant_docs == get_relevant_docs(entries, q)
                  IN  relevant_docs # {}
                      /\ Top10Docs(QueryGroup(rows, q)) \cap relevant_docs # {}
        successful_queries == Cardinality({k \in 1..Len(order) : hit(order[k])})
        total_queries == Len(order)
    IN  IF rows = <<>> THEN Zero
        ELSE IF total_queries > 0 THEN Ratio(successful_queries, total_queries)
        ELSE Zero

-----------------------------------------------------------------------------
(* KPI analysis: eval_cli/scoring/kpi_analyzer.py, eval_cli/models/reports.py *)
(* Metric values and targets are in thousandths; a dict key is a sequence   *)
(* of string pieces, so that f"all.{name}" is <<"all.">> \o name.           *)

\* float('nan'): no comparison with it holds
NaN == -1000000

\* a >= b of two floats
Geq(a, b) == a # NaN /\ b # NaN /\ a >= b

\* Optional values: None and a present value
None == <<>>
Some(v) == <<v>>

\* key_metrics: metric key and display name, in dict order
key_metrics ==
    << <<"ndcg_cut_10", "nDCG@10">>, <<"ndcg_cut_25", "nDCG@25">>,
       <<"ndcg_cut_50", "nDCG@50">>, <<"ndcg_cut_100", "nDCG@100">>,
       <<"map_cut_100", "MAP@100">>, <<"recip_rank", "MRR@10">>,
       <<"recall_25", "Recall@25">>, <<"recall_50", "Recall@50">>,
       <<"recall_100", "Recall@100">>, <<"hitrate_10", "HitRate@10">> >>

Key(name) == <<name>>
AllKey(name) == <<"all.">> \o Key(name)

\* d.get(key, default)
DictGet(d, key, default) == IF key \in DOMAIN d THEN d[key] ELSE default

\* mutant: the prefixed key is looked up before the plain key
MetricLookupPrefixedFirst(m, name) ==
    DictGet(m, AllKey(name), DictGet(m, Key(name), 0))

\* metrics.get(metric_name, metrics.get(f"all.{metric_name}", 0.0))
MetricLookup(m, name) == DictGet(m, Key(name), DictGet(m, AllKey(name), 0))

\* self.targets.get(metric_name)
TargetLookup(t, name) == IF Key(name) \in DOMAIN t THEN Some(t[Key(name)]) ELSE None

\* mutant: a value equal to the target does not pass
StatusOfStrict(value, target) ==
    IF target = None THEN "unknown"
    ELSE IF value # NaN /\ value > target[1] THEN "pass"
    ELSE IF Geq(10 * value, 9 * target[1]) THEN "warn"
    ELSE "fail"

\* the status of a value against its target; value >= target * 0.9 is
\* compared as 10 * value >= 9 * target
StatusOf(value, target) ==
    IF target = None THEN "unknown"
    ELSE IF Geq(value, target[1]) THEN "pass"
    ELSE IF value # NaN /\ Geq(10 * value, 9 * target[1]) THEN "warn"
    ELSE "fail"

MetricValue(name, value, target, status) ==
    [name |-> name, value |-> value, target |-> target, status |-> status,
     higher_is_better |-> TRUE]

\* KPIAnalyzer.analyze_metrics(metrics)
analyze_metrics(m, t) ==
    [k \in 1..Len(key_metrics) |->
        LET value == MetricLookup(m, key_metrics[k][1])
            target == TargetLookup(t, key_metrics[k][1])
        IN  MetricValue(key_metrics[k][2], value, target, StatusOf(value, target))]

Statuses == {"pass", "warn", "fail", "unknown"}

\* the tally of the statuses of a metric list
CountStatuses(metric_values) ==
    [st \in Statuses |->
        Cardinality({k \in 1..Len(metric_values) : metric_values[k].status = st})]

\* mutant: warn is looked at before fail
determine_overall_status_warn_first(status_counts) ==
    IF status_counts["warn"] > 0 THEN "warn"
    ELSE IF status_counts["fail"] > 0 THEN "fail"
    ELSE IF status_counts["pass"] > 0 THEN "pass"
    ELSE "unknown"

\* KPIAnalyzer._determine_overall_status(status_counts)
determine_overall_status(status_counts) ==
    IF status_counts["fail"] > 0 THEN "fail"
    ELSE IF status_counts["warn"] > 0 THEN "warn"
    ELSE IF status_counts["pass"] > 0 THEN "pass"
    ELSE "unknown"

\* an exception raised instead of a value returned
Raised(exception) == [raised |-> exception]
IsRaised(v) == "raised" \in DOMAIN v

\* mutant: the unknown count is not compared
EvaluationReportKnownOnly(metric_values, status_counts, overall_status) ==
    IF \A st \in Statuses \ {"unknown"} :
           DictGet(status_counts, st, 0) = CountStatuses(metric_values)[st]
    THEN [metrics |-> metric_values, status_counts |-> status_counts,
          overall_status |-> overall_status]
    ELSE Raised("ValueError")

\* EvaluationReport(metrics, status_counts, overall_status): the report, or
\* the ValueError of validate_status_counts
EvaluationReport(metric_values, status_counts, overall_status) ==
    IF \A st \in Statuses :
           DictGet(status_counts, st, 0) = CountStatuses(metric_values)[st]
    THEN [metrics |-> metric_values, status_counts |-> status_counts,
          overall_status |-> overall_status]
    ELSE Raised("ValueError")

\* KPIAnalyzer.create_report(metrics)
create_report(m, t) ==
    LET metric_values == analyze_metrics(m, t)
        status_counts == CountStatuses(metric_values)
    IN  EvaluationReport(metric_values, status_counts,
                         determine_overall_status(status_counts))

-----------------------------------------------------------------------------
(* Specification SpecRunIO: build_trec_run, then write_trec_run, then      *)
(* read_trec_run of the file written.                                      *)

QueryIds == {<<"q", "1">>, <<"q", "2">>}
DocIds == {<<"d", "1">>, <<"d", "2">>}
\* 0.8, 0.9, 0.123456789 and -0.0005: in and out of order, with ties, with
\* more than six decimals, negative
IOScores == {800000000, 900000000, 123456789, -500000}
\* a run id, and the empty run id
RunIds == {<<"r", "1">>, <<>>}

Segments == [segment_id : DocIds, score : IOScores]
SegLists(n) == UNION {[1..k -> Segments] : k \in 0..n}
QueryResult(q, segs) == [query_id |-> q, segments |-> segs]

\* responses mappings of one or two queries with at most MaxSegs segments
SmallResponses ==
    {<<>>}
    \cup {<<QueryResult(q, s)>> : q \in QueryIds, s \in SegLists(MaxSegs)}
    \cup UNION {UNION {{<<QueryResult(q1, s1), QueryResult(q2, s2)>> :
                            s2 \in SegLists(MaxSegs - Len(s1)),
                            q2 \in QueryIds \ {q1}} :
                        s1 \in SegLists(MaxSegs)} : q1 \in QueryIds}

\* a segment list of n entries with distinct ids and decreasing scores
LongSegments(n) ==
    [i \in 1..n |-> [segment_id |-> <<"d">> \o NatToStr(i),
                     score |-> NanoScale - i * MicroPerNano]]

\* responses of one query around the 100-segment cap
LongResponses ==
    {<<QueryResult(<<"q", "1">>, LongSegments(n))>> :
        n \in (MaxResultsPerQuery - 1)..(MaxResultsPerQuery + OverCap)}

InitRunIO ==
    /\ input = NoValue
    /\ pc = "start"
    /\ cmd = "run_io"
    /\ responses \in SmallResponses \cup LongResponses
    /\ run_id \in RunIds
    /\ run = NoValue
    /\ errors = NoValue
    /\ file = NoValue
    /\ loaded = NoValue
    /\ skipped = NoValue
    /\ qrels = NoValue
    /\ result = NoValue
    /\ log = <<>>
    /\ mode = NoValue
    /\ metrics = NoValue
    /\ targets = NoValue
    /\ report = NoValue

Build ==
    /\ pc = "start"
    /\ run' = build_trec_run(responses, run_id)
    /\ pc' = "built"
    /\ UNCHANGED <<cmd, input, responses, run_id, errors, file, loaded, skipped,
                   qrels, result, log,
                   mode, kpiVars>>

Write ==
    /\ pc = "built"
    /\ file' = write_trec_run(run)
    /\ pc' = "written"
    /\ UNCHANGED <<cmd, input, responses, run_id, run, errors, loaded, skipped,
                   qrels, result, log,
                   mode, kpiVars>>

Read ==
    /\ pc = "written"
    /\ LET r == read_trec_run(file)
       IN  /\ loaded' = r.rows
           /\ skipped' = r.skipped_lines
    /\ pc' = "read"
    /\ UNCHANGED <<cmd, input, responses, run_id, run, errors, file, qrels, result, log,
                   mode, kpiVars>>

NextRunIO == Build \/ Write \/ Read

SpecRunIO == InitRunIO /\ [][NextRunIO]_vars

-----------------------------------------------------------------------------
(* Claims on SpecRunIO                                                     *)

Min(a, b) == IF a < b THEN a ELSE b

\* the rows of query q, in run order
RowsOf(rows, q) == SelectSeq(rows, LAMBDA r : r.query_id = q)

\* C1: for every query q of the responses mapping with segment list S, the
\* run built holds exactly min(|S|, 100) rows of q, in run order the i-th has
\* rank i, doc_id S[i].segment_id, score S[i].score and the run_id passed in
\* (nothing is re-sorted), and an empty segment list contributes no row.
C1_BuildKeepsOrder ==
    pc # "start" =>
        /\ \A k \in 1..Len(responses) :
            LET S == responses[k].segments
                R == RowsOf(run, responses[k].query_id)
            IN  /\ Len(R) = Min(Len(S), MaxResultsPerQuery)
                /\ \A i \in 1..Len(R) :
                    /\ R[i].rank = i
                    /\ R[i].doc_id = S[i].segment_id
                    /\ R[i].score = S[i].score
                    /\ R[i].run_id = run_id
        /\ \A i \in 1..Len(run) :
            \E k \in 1..Len(responses) : responses[k].query_id = run[i].query_id

\* C1 witness: a query whose scores come out of order and with a tie has been
\* built into rows 1, 2 in the given order, beside a query capped at 100 rows
\* in another reachable state
C1_Witness ==
    /\ pc = "built"
    /\ \E k \in 1..Len(responses) :
        LET S == responses[k].segments
            R == RowsOf(run, responses[k].query_id)
        IN  /\ Len(S) = 2 /\ S[1].score < S[2].score
            /\ Len(R) = 2 /\ R[1].score < R[2].score /\ R[2].rank = 2

\* ids that survive the TSV line: non-empty, no whitespace
WellFormedId(id) == id # <<>> /\ \A i \in 1..Len(id) : ~IsSpace(id[i])

WellFormedInput ==
    /\ WellFormedId(run_id)
    /\ \A k \in 1..Len(responses) :
        /\ WellFormedId(responses[k].query_id)
        /\ \A i \in 1..Len(responses[k].segments) :
            WellFormedId(responses[k].segments[i].segment_id)

RowTuple(r) == <<r.query_id, r.doc_id, r.rank, r.score, r.run_id>>
TupleSet(rows) == {RowTuple(rows[i]) : i \in 1..Len(rows)}

\* a score rounded to six decimals (half to even)
Round6(score) ==
    LET a == Abs(score)
        down == a - (a % MicroPerNano)
        up == down + MicroPerNano
        nearest == IF 2 * (a % MicroPerNano) < MicroPerNano THEN down
                   ELSE IF 2 * (a % MicroPerNano) > MicroPerNano THEN up
                   ELSE IF (down \div MicroPerNano) % 2 = 0 THEN down ELSE up
    IN  IF score < 0 THEN -nearest ELSE nearest

-----------------------------------------------------------------------------
(* Specification SpecValidate: TrecRun.validate_format on any run          *)

\* 0.8, 0.8 + 1e-9 and 0.9
ValScores == {800000000, 800000001, 900000000}

ValRows ==
    {TrecRunRow(q, Q0, <<"d", "1">>, rank, score, <<"r", "1">>) :
        q \in QueryIds, rank \in 1..(MaxRows + 1), score \in ValScores}

SmallRuns == UNION {[1..n -> ValRows] : n \in 0..MaxRows}

\* a run of n rows of one query, ranks 1..n, scores decreasing
LongRun(n) ==
    [i \in 1..n |-> TrecRunRow(<<"q", "1">>, Q0, <<"d">> \o NatToStr(i), i,
                               NanoScale - i * MicroPerNano, <<"r", "1">>)]

LongRuns ==
    {LongRun(n) : n \in MaxResultsPerQuery..(MaxResultsPerQuery + OverCap)}

InitValidate ==
    /\ input = NoValue
    /\ pc = "start"
    /\ cmd = "validate_format"
    /\ run \in SmallRuns \cup LongRuns
    /\ responses = NoValue
    /\ run_id = NoValue
    /\ errors = NoValue
    /\ file = NoValue
    /\ loaded = NoValue
    /\ skipped = NoValue
    /\ qrels = NoValue
    /\ result = NoValue
    /\ log = <<>>
    /\ mode = NoValue
    /\ metrics = NoValue
    /\ targets = NoValue
    /\ report = NoValue

Validate ==
    /\ pc = "start"
    /\ errors' = validate_format(run)
    /\ pc' = "validated"
    /\ UNCHANGED <<cmd, input, responses, run_id, run, file, loaded, skipped, qrels,
                   result, log,
                   mode, kpiVars>>

NextValidate == Validate

SpecValidate == InitValidate /\ [][NextValidate]_vars

-----------------------------------------------------------------------------
(* Claims on SpecValidate                                                  *)

Validated == pc = "validated"
ErrorSet == {errors[k] : k \in 1..Len(errors)}
RunQueries == {run[i].query_id : i \in 1..Len(run)}
RanksOfQuery(q) == {run[i].rank : i \in {i \in 1..Len(run) : run[i].query_id = q}}
RowCount(q) == Cardinality({i \in 1..Len(run) : run[i].query_id = q})

\* row i comes before row j when the rows are sorted by ascending rank
\* (rows of equal rank in run order)
RankBefore(i, j) ==
    \/ run[i].rank < run[j].rank
    \/ (run[i].rank = run[j].rank /\ i < j)

\* rows i and j of one query are neighbours in the order by ascending rank
AdjacentByRank(i, j) ==
    /\ run[i].query_id = run[j].query_id
    /\ RankBefore(i, j)
    /\ ~\E k \in 1..Len(run) : /\ run[k].query_id = run[i].query_id
                               /\ RankBefore(i, k) /\ RankBefore(k, j)

IncreaseError(i, j) ==
    [kind |-> "increasing_scores", qid |-> run[i].query_id,
     rank1 |-> run[i].rank, score1 |-> FormatFixed6(run[i].score),
     rank2 |-> run[j].rank, score2 |-> FormatFixed6(run[j].score)]

\* C4: for every query, with its rows sorted by ascending rank, whenever a
\* row's score exceeds the previous row's score the error list holds an error
\* of that query giving both ranks of the pair and both scores (as printed,
\* six decimals), whatever the order of the rows in the run.
C4_IncreaseReported ==
    Validated =>
        \A i, j \in 1..Len(run) :
            (AdjacentByRank(i, j) /\ run[j].score > run[i].score)
                => IncreaseError(i, j) \in ErrorSet

\* C4 witness: rows (q1, 2, 0.9), (q1, 1, 0.8), listed out of rank order, are
\* flagged with an error naming ranks 1 and 2
C4_Witness ==
    /\ pc = "validated"
    /\ Len(run) = 2
    /\ run[1].query_id = run[2].query_id
    /\ run[1].rank = 2 /\ run[1].score = 900000000
    /\ run[2].rank = 1 /\ run[2].score = 800000000
    /\ \E e \in ErrorSet :
        e.kind = "increasing_scores" /\ e.rank1 = 1 /\ e.rank2 = 2

NamesRank(e, q, r) ==
    /\ e.qid = q
    /\ \/ (e.kind = "duplicate_rank" /\ e.rank = r)
       \/ (e.kind = "duplicate_ranks" /\ \E k \in 1..Len(e.ranks) : e.ranks[k] = r)

DuplicatedRanks(q) ==
    {r \in RanksOfQuery(q) :
        Cardinality({i \in 1..Len(run) :
            run[i].query_id = q /\ run[i].rank = r}) > 1}

\* C5: the error list holds an error naming the query and rank r for every
\* rank r that more than one row of the query has, and no duplicate-rank
\* error for a query whose ranks are pairwise distinct.
C5_DuplicateRanksReported ==
    Validated =>
        \A q \in RunQueries :
            /\ \A r \in DuplicatedRanks(q) : \E e \in ErrorSet : NamesRank(e, q, r)
            /\ DuplicatedRanks(q) = {} =>
                ~\E e \in ErrorSet :
                    e.qid = q /\ e.kind \in {"duplicate_rank", "duplicate_ranks"}

\* C5 witness: a run of two rows both (q, rank 1) is flagged, both by the
\* row-by-row check and by the per-query check, naming rank 1
C5_Witness ==
    /\ pc = "validated"
    /\ Len(run) = 2
    /\ run[1].query_id = run[2].query_id
    /\ run[1].rank = 1 /\ run[2].rank = 1
    /\ \E e \in ErrorSet : e.kind = "duplicate_rank" /\ e.rank = 1
    /\ \E e \in ErrorSet : e.kind = "duplicate_ranks" /\ e.ranks = <<1>>

MissingRanks(q) == (1..RowCount(q)) \ RanksOfQuery(q)

\* C6: for a query with N rows the error list holds an error naming every
\* value of 1..N that no row of the query has as rank, and holds no
\* missing-rank error exactly when the ranks of the query are 1..N.
C6_MissingRanksReported ==
    Validated =>
        \A q \in RunQueries :
            LET reported == {e \in ErrorSet : e.kind = "missing_ranks" /\ e.qid = q}
            IN  /\ MissingRanks(q) # {} =>
                    \E e \in reported :
                        {e.ranks[k] : k \in 1..Len(e.ranks)} = MissingRanks(q)
                /\ (reported = {}) <=> (RanksOfQuery(q) = 1..RowCount(q))

\* C6 witness: a query with ranks 1 and 3 in two rows gets rank 2 reported
C6_Witness ==
    /\ pc = "validated"
    /\ \E q \in RunQueries :
        /\ RowCount(q) = 2 /\ RanksOfQuery(q) = {1, 3}
        /\ \E e \in ErrorSet :
            e.kind = "missing_ranks" /\ e.qid = q /\ e.ranks = <<2>>

\* C7: an adjacent pair of rows (by rank) whose later score exceeds the
\* earlier score by no more than epsilon produces no monotonicity error.
C7_ToleranceRespected ==
    Validated =>
        \A i, j \in 1..Len(run) :
            (/\ AdjacentByRank(i, j)
             /\ DuplicatedRanks(run[i].query_id) = {}
             /\ run[j].score <= run[i].score + Epsilon)
                => ~\E e \in ErrorSet :
                       /\ e.kind = "increasing_scores"
                       /\ e.qid = run[i].query_id
                       /\ e.rank1 = run[i].rank /\ e.rank2 = run[j].rank

-----------------------------------------------------------------------------
(* Specification SpecPipeline: the commands that build a run and persist   *)
(* it: `runs build` (commands/runs.py), `pipeline run` and `pipeline       *)
(* run-all` (commands/pipeline.py), one step of a command per action.      *)

Commands == {"runs_build", "pipeline_run", "pipeline_run_all"}

\* modes = ["lexical", "vector", "hybrid"]
Modes == << <<"l", "e", "x", "i", "c", "a", "l">>,
            <<"v", "e", "c", "t", "o", "r">>,
            <<"h", "y", "b", "r", "i", "d">> >>

ExperimentName == <<"r", "1">>

\* run_id of the run a command builds
RunIdOf(c, m) ==
    IF c = "pipeline_run_all" THEN ExperimentName \o <<"_">> \o Modes[m]
    ELSE ExperimentName

\* what retrieval can return for one query: segments d1, d2, .. with scores
\* 0.8 or 0.9 each, in any order of scores
PipeResponses ==
    {<<QueryResult(<<"q", "1">>, segs)>> :
        segs \in {s \in SegLists(MaxSegs) :
                    \A i \in 1..Len(s) :
                        /\ s[i].segment_id = <<"d">> \o NatToStr(i)
                        /\ s[i].score \in {800000000, 900000000}}}

InitPipeline ==
    /\ input = NoValue
    /\ pc = "start"
    /\ cmd \in Commands
    /\ responses = NoValue
    /\ run_id = NoValue
    /\ run = NoValue
    /\ errors = NoValue
    /\ file = NoValue
    /\ loaded = NoValue
    /\ skipped = NoValue
    /\ qrels = NoValue
    /\ result = NoValue
    /\ log = <<>>
    /\ mode = IF cmd = "pipeline_run_all" THEN 1 ELSE NoValue
    /\ metrics = NoValue
    /\ targets = NoValue
    /\ report = NoValue

\* the responses are loaded from the JSON file (runs build) or retrieved
\* through the API (pipeline run, run-all); a failure ends the command
LoadResponses ==
    /\ pc = "start"
    /\ \/ /\ responses' \in PipeResponses
          /\ pc' = "loaded"
       \/ /\ pc' = "exit"
          /\ UNCHANGED responses
    /\ UNCHANGED <<cmd, input, run_id, run, errors, file, loaded, skipped, qrels,
                   result, log, mode, kpiVars>>

\* trec_run = build_trec_run(responses, run_id, metadata)
BuildStep ==
    /\ pc = "loaded"
    /\ run_id' = RunIdOf(cmd, mode)
    /\ run' = build_trec_run(responses, run_id')
    /\ log' = Append(log, "build")
    /\ pc' = "built"
    /\ UNCHANGED <<cmd, input, responses, errors, file, loaded, skipped, qrels,
                   result, mode, kpiVars>>

\* runs build only: errors = trec_run.validate_format(); Exit(1) on errors
ValidateStep ==
    /\ pc = "built"
    /\ cmd = "runs_build"
    /\ errors' = validate_format(run)
    /\ log' = Append(log, "validate")
    /\ pc' = IF errors' # <<>> THEN "exit" ELSE "validated"
    /\ UNCHANGED <<cmd, input, responses, run_id, run, file, loaded, skipped, qrels,
                   result, mode, kpiVars>>

\* write_trec_run(trec_run, run_file): after the validation in runs build,
\* right after the build in pipeline run and run-all
WriteStep ==
    /\ \/ (cmd = "runs_build" /\ pc = "validated")
       \/ (cmd # "runs_build" /\ pc = "built")
    /\ file' = write_trec_run(run)
    /\ log' = Append(log, "write")
    /\ pc' = IF cmd = "runs_build" THEN "done" ELSE "written"
    /\ UNCHANGED <<cmd, input, responses, run_id, run, errors, loaded, skipped,
                   qrels, result, mode, kpiVars>>

\* metrics = trec_eval.evaluate(qrels_path, run_file): a result or an error
EvaluateStep ==
    /\ pc = "written"
    /\ \/ /\ result' = "metrics"
          /\ log' = Append(log, "evaluate")
          /\ pc' = "evaluated"
       \/ /\ pc' = "exit"
          /\ UNCHANGED <<result, log>>
    /\ UNCHANGED <<cmd, input, responses, run_id, run, errors, file, loaded,
                   skipped, qrels, mode, kpiVars>>

\* report = analyzer.create_report(metrics); run-all goes on to the next mode
AnalyzeStep ==
    /\ pc = "evaluated"
    /\ log' = Append(log, "analyze")
    /\ IF cmd = "pipeline_run_all" /\ mode < Len(Modes)
       THEN /\ mode' = mode + 1
            /\ pc' = "start"
            /\ responses' = NoValue
            /\ run_id' = NoValue
            /\ run' = NoValue
            /\ file' = NoValue
            /\ result' = NoValue
       ELSE /\ pc' = "done"
            /\ UNCHANGED <<mode, responses, run_id, run, file, result>>
    /\ UNCHANGED <<cmd, input, errors, loaded, skipped, qrels, kpiVars>>

NextPipeline ==
    \/ LoadResponses
    \/ BuildStep
    \/ ValidateStep
    \/ WriteStep
    \/ EvaluateStep
    \/ AnalyzeStep

SpecPipeline == InitPipeline /\ [][NextPipeline]_vars

-----------------------------------------------------------------------------
(* Claims on SpecPipeline                                                  *)

\* the step logged last before position i that is a build
LastBuildBefore(i) ==
    CHOOSE b \in 0..(i - 1) :
        /\ (b = 0 \/ log[b] = "build")
        /\ \A k \in (b + 1)..(i - 1) : log[k] # "build"

\* C3: every pipeline run performs build, validate, write, evaluate, analyze
\* in this order: the validator is called on the built run before the run
\* file is written, and a run for which the validator returns errors is
\* never persisted nor scored.
C3_ValidatedBeforePersisted ==
    /\ \A i \in 1..Len(log) :
        log[i] = "write" =>
            \E v \in (LastBuildBefore(i) + 1)..(i - 1) : log[v] = "validate"
    /\ (file # NoValue \/ result # NoValue) => validate_format(run) = <<>>

-----------------------------------------------------------------------------
(* Specification SpecHitrate: compute_hitrate_10 on a run and judgements   *)

Q1 == <<"q", "1">>
Q2 == <<"q", "2">>
D5 == <<"d", "5">>

\* n rows of query q with ranks 1..n, the document D5 at rank p (nowhere when
\* p = 0) and distinct other documents elsewhere
RankedRows(q, n, p) ==
    [i \in 1..n |-> TrecRunRow(q, Q0, IF i = p THEN D5 ELSE <<"x">> \o NatToStr(i),
                               i, NanoScale - i * MicroPerNano, <<"r", "1">>)]

Reverse(seq) == [i \in 1..Len(seq) |-> seq[Len(seq) + 1 - i]]

\* runs of up to MaxHitRows rows of q1 and at most one row of q2, the rows
\* in rank order or in reverse rank order
HitRuns ==
    {IF rev THEN Reverse(RankedRows(Q1, n, p) \o RankedRows(Q2, m, r))
     ELSE RankedRows(Q1, n, p) \o RankedRows(Q2, m, r) :
        <<n, p, m, r, rev>> \in
            {t \in (0..MaxHitRows) \X (0..MaxHitRows) \X (0..1) \X (0..1) \X BOOLEAN :
                t[2] <= t[1] /\ t[4] <= t[3]}}

\* judgements of D5 for q1 and for q2: relevant, judged non-relevant, absent
HitQrels ==
    {j1 \o j2 : j1 \in {<<>>, <<QrelEntry(Q1, D5, 1)>>, <<QrelEntry(Q1, D5, 0)>>},
                j2 \in {<<>>, <<QrelEntry(Q2, D5, 1)>>, <<QrelEntry(Q2, D5, 0)>>}}

InitHitrate ==
    /\ input = NoValue
    /\ pc = "start"
    /\ cmd = "compute_hitrate_10"
    /\ run \in HitRuns
    /\ qrels \in HitQrels
    /\ responses = NoValue
    /\ run_id = NoValue
    /\ errors = NoValue
    /\ file = NoValue
    /\ loaded = NoValue
    /\ skipped = NoValue
    /\ result = NoValue
    /\ log = <<>>
    /\ mode = NoValue
    /\ metrics = NoValue
    /\ targets = NoValue
    /\ report = NoValue

ComputeHitrate ==
    /\ pc = "start"
    /\ result' = compute_hitrate_10(run, qrels)
    /\ pc' = "scored"
    /\ UNCHANGED <<cmd, input, responses, run_id, run, errors, file, loaded, skipped,
                   qrels, log, mode, kpiVars>>

NextHitrate == ComputeHitrate

SpecHitrate == InitHitrate /\ [][NextHitrate]_vars

-----------------------------------------------------------------------------
(* Claims on SpecHitrate                                                   *)

RelevantSet(q) ==
    {qrels[i].doc_id : i \in {i \in 1..Len(qrels) :
        qrels[i].query_id = q /\ qrels[i].relevance > 0}}

\* the queries of the run with at least one judged-relevant document
EligibleQueries == {q \in RunQueries : RelevantSet(q) # {}}

\* row i is among the 10 best rows of its query by rank
AmongTop10(i) ==
    Cardinality({j \in 1..Len(run) :
        run[j].query_id = run[i].query_id /\ RankBefore(j, i)}) < TopK

HitQueries ==
    {q \in EligibleQueries :
        \E i \in 1..Len(run) :
            run[i].query_id = q /\ AmongTop10(i) /\ run[i].doc_id \in RelevantSet(q)}

\* C8: compute_hitrate_10 returns #hits / #eligible queries, the eligible
\* queries being the queries of the run with at least one judged-relevant
\* document, a hit being an eligible query with a relevant document among its
\* 10 best rows by rank; 0.0 for a run without rows or without eligible
\* query; a value in [0, 1].
C8_HitrateOverEligible ==
    pc = "scored" =>
        /\ 0 <= result.num /\ result.num <= result.den /\ result.den > 0
        /\ IF run = <<>> \/ EligibleQueries = {}
           THEN result.num = 0
           ELSE result.num * Cardinality(EligibleQueries)
                    = Cardinality(HitQueries) * result.den

-----------------------------------------------------------------------------
(* Specification SpecKPI: analyze_metrics and create_report on a metrics   *)
(* mapping, with configured targets                                        *)

\* the metrics of the display set that the inputs mention
KpiNames == {key_metrics[k][1] : k \in 1..MaxKpiNames}

\* 0.85, 0.9, 0.95, 1.0 and not-a-number
KpiValues == {850, 900, 950, 1000, NaN}
AllValues == {950}
KpiTargets == {1000}
OtherKey == <<"P_10">>

\* the functions from a subset of keys to vals
PartialMaps(keys, vals) == UNION {[d -> vals] : d \in SUBSET keys}

\* the union of two mappings with disjoint domains
Merge(f, g) == [k \in DOMAIN f \cup DOMAIN g |-> IF k \in DOMAIN f THEN f[k] ELSE g[k]]

KpiMetrics ==
    {Merge(Merge(plain, prefixed), other) :
        plain \in PartialMaps({Key(n) : n \in KpiNames}, KpiValues),
        prefixed \in PartialMaps({AllKey(n) : n \in KpiNames}, AllValues),
        other \in PartialMaps({OtherKey}, {1000})}

InitKPI ==
    /\ input = NoValue
    /\ pc = "start"
    /\ cmd = "kpi"
    /\ metrics \in KpiMetrics
    /\ targets \in PartialMaps({Key(n) : n \in KpiNames}, KpiTargets)
    /\ report = NoValue
    /\ responses = NoValue
    /\ run_id = NoValue
    /\ run = NoValue
    /\ errors = NoValue
    /\ file = NoValue
    /\ loaded = NoValue
    /\ skipped = NoValue
    /\ qrels = NoValue
    /\ result = NoValue
    /\ log = <<>>
    /\ mode = NoValue

\* metric_values = analyzer.analyze_metrics(metrics)
AnalyzeMetrics ==
    /\ pc = "start"
    /\ result' = analyze_metrics(metrics, targets)
    /\ pc' = "analyzed"
    /\ UNCHANGED <<cmd, input, responses, run_id, run, errors, file, loaded, skipped,
                   qrels, log, mode, kpiVars>>

\* report = analyzer.create_report(metrics)
CreateReport ==
    /\ pc = "start"
    /\ report' = create_report(metrics, targets)
    /\ pc' = "reported"
    /\ UNCHANGED <<cmd, input, responses, run_id, run, errors, file, loaded, skipped,
                   qrels, result, log, mode, metrics, targets>>

NextKPI == AnalyzeMetrics \/ CreateReport

SpecKPI == InitKPI /\ [][NextKPI]_vars

-----------------------------------------------------------------------------
(* Claims on SpecKPI                                                       *)

\* C9: each metric's status follows from its value and target alone: unknown
\* when no target is configured; pass when value >= target; warn when
\* target*0.9 <= value < target; fail when value < target*0.9; exactly one of
\* the four statuses in every case.
C9_StatusRule ==
    pc = "analyzed" =>
        \A k \in 1..Len(result) :
            LET mv == result[k]
                v == mv.value
            IN  /\ mv.status \in Statuses
                /\ mv.target = None => mv.status = "unknown"
                /\ mv.target # None =>
                    LET t == mv.target[1]
                    IN  /\ mv.status # "unknown"
                        /\ (v # NaN /\ v >= t) => mv.status = "pass"
                        /\ (v # NaN /\ 9 * t <= 10 * v /\ v < t) => mv.status = "warn"
                        /\ (v # NaN /\ 10 * v < 9 * t) => mv.status = "fail"

\* C9 witness: 0.95 against 1.0 is warn and 0.85 against 1.0 is fail, beside
\* metrics without target that are unknown
C9_Witness ==
    /\ pc = "analyzed"
    /\ \E k \in 1..Len(result) :
        result[k].value = 950 /\ result[k].target = Some(1000)
        /\ result[k].status = "warn"
    /\ \E k \in 1..Len(result) :
        result[k].value = 850 /\ result[k].target = Some(1000)
        /\ result[k].status = "fail"
    /\ \E k \in 1..Len(result) :
        result[k].target = None /\ result[k].status = "unknown"

ReportStatuses == {report.metrics[k].status : k \in 1..Len(report.metrics)}

\* C10: overall_status is fail if any metric is fail, else warn if any is
\* warn, else pass if any is pass, else unknown; status_counts tallies the
\* statuses of the metric list of the report, and the four counts sum to the
\* number of metrics.
C10_OverallStatusPriority ==
    pc = "reported" =>
        /\ ~IsRaised(report)
        /\ report.overall_status =
             (IF "fail" \in ReportStatuses THEN "fail"
              ELSE IF "warn" \in ReportStatuses THEN "warn"
              ELSE IF "pass" \in ReportStatuses THEN "pass"
              ELSE "unknown")
        /\ \A st \in Statuses :
            report.status_counts[st] =
                Cardinality({k \in 1..Len(report.metrics) :
                                report.metrics[k].status = st})
        /\ report.status_counts["pass"] + report.status_counts["warn"]
             + report.status_counts["fail"] + report.status_counts["unknown"]
             = Len(report.metrics)

\* C10 witness: a report with a failing and a warning metric is fail overall
C10_Witness ==
    /\ pc = "reported"
    /\ ~IsRaised(report)
    /\ report.status_counts["fail"] = 1
    /\ report.status_counts["warn"] = 1
    /\ report.overall_status = "fail"


\* the display set, in its order: metric key and display name
DisplayKeys ==
    <<"ndcg_cut_10", "ndcg_cut_25", "ndcg_cut_50", "ndcg_cut_100", "map_cut_100",
      "recip_rank", "recall_25", "recall_50", "recall_100", "hitrate_10">>
DisplayNames ==
    <<"nDCG@10", "nDCG@25", "nDCG@50", "nDCG@100", "MAP@100",
      "MRR@10", "Recall@25", "Recall@50", "Recall@100", "HitRate@10">>

\* C23: analyze_metrics returns exactly one MetricValue per metric of the
\* fixed display set, in the fixed order; the value of the entry of name is
\* metrics[name] if present, else metrics["all." + name] if present, else
\* 0.0; its target is the configured target or absent; so a key of the input
\* outside the set adds, removes or changes no entry.
C23_FixedDisplaySet ==
    pc = "analyzed" =>
        /\ Len(result) = Len(DisplayKeys)
        /\ \A k \in 1..Len(DisplayKeys) :
            LET plain == <<DisplayKeys[k]>>
                prefixed == <<"all.", DisplayKeys[k]>>
            IN  /\ result[k].name = DisplayNames[k]
                /\ result[k].value =
                     (IF plain \in DOMAIN metrics THEN metrics[plain]
                      ELSE IF prefixed \in DOMAIN metrics THEN metrics[prefixed]
                      ELSE 0)
                /\ result[k].target =
                     (IF plain \in DOMAIN targets THEN Some(targets[plain]) ELSE None)

\* C23 witness: a mapping with a key outside the set, a metric under both
\* keys with different values and a metric under the prefixed key only has
\* been analyzed into the ten entries
C23_Witness ==
    /\ pc = "analyzed"
    /\ OtherKey \in DOMAIN metrics
    /\ Key("ndcg_cut_10") \in DOMAIN metrics
    /\ AllKey("ndcg_cut_10") \in DOMAIN metrics
    /\ metrics[Key("ndcg_cut_10")] = 850
    /\ Key("ndcg_cut_25") \notin DOMAIN metrics
    /\ AllKey("ndcg_cut_25") \in DOMAIN metrics
    /\ Len(result) = 10
    /\ result[1].value = 850
    /\ result[2].value = 950
    /\ result[3].value = 0

-----------------------------------------------------------------------------
(* Specification SpecReport: the EvaluationReport constructor on a metric  *)
(* list and a status_counts mapping, and what a holder of the report can   *)
(* do to it afterwards (the model class is a plain pydantic BaseModel).    *)

MaxReportMetrics == 2   \* metrics of a report given to the constructor

\* a metric of the given status
StatusMetric(st) == MetricValue("nDCG@10", 950, None, st)

\* metric lists of at most MaxReportMetrics entries, of any statuses
ReportMetricLists ==
    UNION {[1..n -> {StatusMetric(st) : st \in Statuses}] : n \in 0..MaxReportMetrics}

\* status_counts mappings: any subset of the four keys, any small counts
ReportCounts == PartialMaps(Statuses, 0..MaxReportMetrics)

InitReport ==
    /\ pc = "start"
    /\ cmd = "EvaluationReport"
    /\ input \in [metrics : ReportMetricLists, status_counts : ReportCounts,
                  overall_status : {"pass"}]
    /\ report = NoValue
    /\ responses = NoValue
    /\ run_id = NoValue
    /\ run = NoValue
    /\ errors = NoValue
    /\ file = NoValue
    /\ loaded = NoValue
    /\ skipped = NoValue
    /\ qrels = NoValue
    /\ result = NoValue
    /\ log = <<>>
    /\ mode = NoValue
    /\ metrics = NoValue
    /\ targets = NoValue

reportFrame == <<cmd, input, responses, run_id, run, errors, file, loaded,
                 skipped, qrels, result, log, mode, metrics, targets>>

\* report = EvaluationReport(metrics=..., status_counts=..., overall_status=...)
Construct ==
    /\ pc = "start"
    /\ report' = EvaluationReport(input.metrics, input.status_counts,
                                  input.overall_status)
    /\ pc' = IF IsRaised(report') THEN "rejected" ELSE "built"
    /\ UNCHANGED reportFrame

\* report.status_counts = {...}: the class is not frozen and does not
\* validate assignments, so the validator does not run again
AssignStatusCounts ==
    /\ pc = "built"
    /\ \E c \in ReportCounts : report' = [report EXCEPT !.status_counts = c]
    /\ pc' = "held"
    /\ UNCHANGED reportFrame

\* report.overall_status = ...
AssignOverallStatus ==
    /\ pc = "built"
    /\ \E st \in Statuses : report' = [report EXCEPT !.overall_status = st]
    /\ pc' = "held"
    /\ UNCHANGED reportFrame

\* report.status_counts[st] = n
UpdateCountInPlace ==
    /\ pc = "built"
    /\ \E st \in Statuses, n \in 0..MaxReportMetrics :
        report' = [report EXCEPT !.status_counts =
                      [k \in DOMAIN report.status_counts \cup {st} |->
                          IF k = st THEN n ELSE report.status_counts[k]]]
    /\ pc' = "held"
    /\ UNCHANGED reportFrame

\* report.metrics.append(metric)
AppendMetric ==
    /\ pc = "built"
    /\ \E st \in Statuses :
        report' = [report EXCEPT !.metrics = Append(report.metrics, StatusMetric(st))]
    /\ pc' = "held"
    /\ UNCHANGED reportFrame

NextReport ==
    \/ Construct
    \/ AssignStatusCounts
    \/ AssignOverallStatus
    \/ UpdateCountInPlace
    \/ AppendMetric

SpecReport == InitReport /\ [][NextReport]_vars

-----------------------------------------------------------------------------
(* Claims on SpecReport                                                    *)

\* the number of metrics of the list with the status
ActualCount(metric_values, st) ==
    Cardinality({k \in 1..Len(metric_values) : metric_values[k].status = st})

\* the count a mapping gives for the status, a missing key counting as 0
GivenCount(status_counts, st) ==
    IF st \in DOMAIN status_counts THEN status_counts[st] ELSE 0

CountsAgree(metric_values, status_counts) ==
    \A st \in Statuses : GivenCount(status_counts, st) = ActualCount(metric_values, st)

\* C11: the constructor rejects with an error, and yields no report, when
\* for some of pass, warn, fail, unknown the given count (0 for a missing
\* key) differs from the number of metrics with that status; it yields the
\* report with the given fields exactly when all four counts agree.
C11_MismatchRejected ==
    pc \in {"built", "rejected"} =>
        /\ pc = "rejected" <=> ~CountsAgree(input.metrics, input.status_counts)
        /\ pc = "rejected" => report = Raised("ValueError")
        /\ pc = "built" =>
            /\ report.metrics = input.metrics
            /\ report.status_counts = input.status_counts

\* C11 witness: a list with one passing metric and a mapping that counts a
\* warning one instead is rejected
C11_Witness ==
    /\ pc = "rejected"
    /\ Len(input.metrics) = 1
    /\ input.metrics[1].status = "pass"
    /\ GivenCount(input.status_counts, "pass") = 1
    /\ GivenCount(input.status_counts, "warn") = 1
    /\ IsRaised(report)

\* C12: in every state after a successful construction, also after a holder
\* assigned to a field or updated status_counts or metrics in place, the
\* count map of the report equals the status distribution of its metrics.
C12_CountsAlwaysConsistent ==
    pc \in {"built", "held"} => CountsAgree(report.metrics, report.status_counts)

-----------------------------------------------------------------------------
(* TrecEvalWrapper._parse_output: eval_cli/scoring/trec_eval.py             *)
(* Metric values parsed from text are in score units (1e-9).               *)

NL == "\n"
IsWhite(c) == IsSpace(c) \/ c = NL

RECURSIVE SkipWhite(_)
\* the text without its leading whitespace
SkipWhite(s) == IF s # <<>> /\ IsWhite(Head(s)) THEN SkipWhite(Tail(s)) ELSE s

RECURSIVE DropWhiteTail(_)
DropWhiteTail(s) ==
    IF s # <<>> /\ IsWhite(s[Len(s)]) THEN DropWhiteTail(SubSeq(s, 1, Len(s) - 1))
    ELSE s

\* str.strip() of a text that may hold newlines
StripWhite(s) == SkipWhite(DropWhiteTail(s))

\* the length of the leading run of non-whitespace characters
WordLen(s) ==
    IF \E i \in 1..Len(s) : IsWhite(s[i])
    THEN (CHOOSE i \in 1..Len(s) :
              IsWhite(s[i]) /\ \A j \in 1..(i - 1) : ~IsWhite(s[j])) - 1
    ELSE Len(s)

RECURSIVE SplitWhite(_, _)
\* str.split(maxsplit=n): fields separated by runs of whitespace; after n
\* splits the rest of the text is the last field (a negative n: no limit)
SplitWhite(s, maxsplit) ==
    LET rest == SkipWhite(s)
        n == WordLen(rest)
    IN  IF rest = <<>> THEN <<>>
        ELSE IF maxsplit = 0 THEN <<rest>>
        ELSE <<SubSeq(rest, 1, n)>>
             \o SplitWhite(SubSeq(rest, n + 1, Len(rest)), maxsplit - 1)

\* str.splitlines()
SplitLines(s) ==
    IF s = <<>> THEN <<>>
    ELSE IF s[Len(s)] = NL THEN Split(SubSeq(s, 1, Len(s) - 1), NL)
    ELSE Split(s, NL)

\* float('inf'), in the units of NaN
PosInf == 2000000000

\* float(text): the decimal literals of ParseFloat, and nan and inf
ParseFloatSpecial(text) ==
    LET body == Unsigned(StripWhite(text))
    IN  IF body = <<"n", "a", "n">> THEN [ok |-> TRUE, val |-> NaN]
        ELSE IF body = <<"i", "n", "f">>
        THEN [ok |-> TRUE, val |-> SignOf(StripWhite(text)) * PosInf]
        ELSE ParseFloat(text)

\* mutant: the second field is not compared with 'all'
ParsedLineAnyQuery(line) ==
    LET parts == SplitWhite(line, 2)
        value == IF Len(parts) >= 3 THEN ParseFloatSpecial(parts[3])
                 ELSE [ok |-> FALSE, val |-> 0]
    IN  [stored |-> StripWhite(line) # <<>> /\ Len(parts) >= 3 /\ value.ok,
         metric_name |-> IF Len(parts) >= 1 THEN parts[1] ELSE <<>>,
         value |-> value.val]

\* one line of the output: its first three fields, and whether it assigns
\* metrics[metric_name] (three fields, a float value, the token 'all')
ParsedLine(line) ==
    LET parts == SplitWhite(line, 2)
        value == IF Len(parts) >= 3 THEN ParseFloatSpecial(parts[3])
                 ELSE [ok |-> FALSE, val |-> 0]
    IN  [stored |-> /\ StripWhite(line) # <<>>
                    /\ Len(parts) >= 3
                    /\ value.ok
                    /\ parts[2] = <<"a", "l", "l">>,
         metric_name |-> IF Len(parts) >= 1 THEN parts[1] ELSE <<>>,
         value |-> value.val]

\* TrecEvalWrapper._parse_output(output): the dict after the loop, a later
\* line of a metric overwriting an earlier one
parse_output(output) ==
    LET lines == SplitLines(StripWhite(output))
        parsed == [i \in 1..Len(lines) |-> ParsedLine(lines[i])]
        storing == {i \in 1..Len(lines) : parsed[i].stored}
    IN  [name \in {parsed[i].metric_name : i \in storing} |->
            parsed[CHOOSE i \in storing :
                       /\ parsed[i].metric_name = name
                       /\ \A j \in storing :
                            parsed[j].metric_name = name => j <= i].value]

-----------------------------------------------------------------------------
(* Specification SpecParseOutput: _parse_output on an output text          *)

MaxOutLines == 2    \* lines of an evaluator output given to the parser

AllToken == <<"a", "l", "l">>
OutNames == {<<"m", "a", "p">>, <<"P", "_", "5">>}
OutTags == {AllToken, <<"q", "1">>}
\* 0.5, 0.25 and a text that is no number
OutValues == {<<"0", ".", "5">>, <<"0", ".", "2", "5">>, <<"x">>}

\* lines of three space-separated fields; the evaluator's own layout (name
\* padded with spaces, tabs); a not-a-number value; a blank line; a line of
\* two fields; a line of four fields
OutLines ==
    {JoinWith(<<n, t, v>>, SPACE) : n \in OutNames, t \in OutTags, v \in OutValues}
    \cup {<<"m", "a", "p", " ", " ", "\t", "a", "l", "l", "\t", "0", ".", "7", "5">>,
          <<"m", "a", "p", " ", "a", "l", "l", " ", "n", "a", "n">>,
          <<" ", " ">>,
          <<"m", "a", "p", " ", "a", "l", "l">>,
          <<"m", "a", "p", " ", "a", "l", "l", " ", "0", ".", "5", " ", "x">>}

\* the output texts: every line ended by a newline
OutTexts ==
    {Concat([i \in 1..Len(ls) |-> Append(ls[i], NL)]) :
        ls \in UNION {[1..n -> OutLines] : n \in 0..MaxOutLines}}

InitParseOutput ==
    /\ pc = "start"
    /\ cmd = "_parse_output"
    /\ input \in OutTexts
    /\ result = NoValue
    /\ responses = NoValue
    /\ run_id = NoValue
    /\ run = NoValue
    /\ errors = NoValue
    /\ file = NoValue
    /\ loaded = NoValue
    /\ skipped = NoValue
    /\ qrels = NoValue
    /\ log = <<>>
    /\ mode = NoValue
    /\ metrics = NoValue
    /\ targets = NoValue
    /\ report = NoValue

\* metrics = self._parse_output(result.stdout)
ParseOutput ==
    /\ pc = "start"
    /\ result' = parse_output(input)
    /\ pc' = "parsed"
    /\ UNCHANGED <<cmd, input, responses, run_id, run, errors, file, loaded,
                   skipped, qrels, log, mode, kpiVars>>

NextParseOutput == ParseOutput

SpecParseOutput == InitParseOutput /\ [][NextParseOutput]_vars

-----------------------------------------------------------------------------
(* Claims on SpecParseOutput                                               *)

\* the lines of the output text
OutputLines == SplitLines(input)

\* the whitespace-separated fields of line i
FieldsOf(i) == SplitWhite(OutputLines[i], -1)

\* line i has the shape '<metric> all <value>' with a numeric value
IsAllLine(i) ==
    /\ Len(FieldsOf(i)) = 3
    /\ FieldsOf(i)[2] = AllToken
    /\ ParseFloatSpecial(FieldsOf(i)[3]).ok

-----------------------------------------------------------------------------
(* TrecEvalWrapper._fallback_evaluate: the aggregation of the per-query    *)
(* values returned by pytrec_eval.  Metric values of the evaluators are in *)
(* units of 1e-6 (MicroScale units make 1.0).                              *)

RECURSIVE SumOver(_, _)
\* the sum of f over the set S
SumOver(S, f) ==
    IF S = {} THEN 0
    ELSE LET x == CHOOSE x \in S : TRUE
         IN  f[x] + SumOver(S \ {x}, f)

\* not (np.isnan(score_float) or np.isinf(score_float))
IsFinite(v) == v # NaN /\ v # PosInf /\ v # -PosInf

\* the empty dict
EmptyDict == [k \in {} |-> 0]

\* system_metrics of the per-query results {query_id: {metric_name: score}}:
\* empty when no query contributed a score; else, for each metric name met,
\* np.mean of its finite scores, or np.nan when none is finite
aggregate_results(results) ==
    LET names == UNION {DOMAIN results[q] : q \in DOMAIN results}
        valid(name) == {q \in DOMAIN results :
                           name \in DOMAIN results[q] /\ IsFinite(results[q][name])}
    IN  IF names = {} THEN EmptyDict
        ELSE [name \in names |->
                 IF valid(name) # {}
                 THEN SumOver(valid(name), [q \in valid(name) |-> results[q][name]])
                          \div Cardinality(valid(name))
                 ELSE NaN]

-----------------------------------------------------------------------------
(* Specification SpecFallback: the aggregation on the requested metrics    *)
(* and any per-query results of the library                                *)

MaxEvalQueries == 2     \* queries for which the library returns values

RecipRank == <<"recip_rank">>
NdcgCut10 == <<"ndcg_cut_10">>
EvalMetrics == {RecipRank, NdcgCut10}

EvalQueryIds == {<<"q">> \o NatToStr(i) : i \in 1..MaxEvalQueries}

\* 1.0, 0.5, not-a-number and infinity
PerQueryScores == {MicroScale, MicroScale \div 2, NaN, PosInf}

\* results of the library for the requested metrics: a value of each
\* requested metric for each query evaluated
PerQueryResults(requested) ==
    UNION {[qs -> [requested -> PerQueryScores]] : qs \in SUBSET EvalQueryIds}

InitFallback ==
    /\ pc = "start"
    /\ cmd = "_fallback_evaluate"
    /\ \E requested \in SUBSET EvalMetrics :
        input \in [metrics : {requested}, results : PerQueryResults(requested)]
    /\ result = NoValue
    /\ responses = NoValue
    /\ run_id = NoValue
    /\ run = NoValue
    /\ errors = NoValue
    /\ file = NoValue
    /\ loaded = NoValue
    /\ skipped = NoValue
    /\ qrels = NoValue
    /\ log = <<>>
    /\ mode = NoValue
    /\ metrics = NoValue
    /\ targets = NoValue
    /\ report = NoValue

\* the transposition and the means of _fallback_evaluate
AggregateResults ==
    /\ pc = "start"
    /\ result' = aggregate_results(input.results)
    /\ pc' = "aggregated"
    /\ UNCHANGED <<cmd, input, responses, run_id, run, errors, file, loaded,
                   skipped, qrels, log, mode, kpiVars>>

NextFallback == AggregateResults

SpecFallback == InitFallback /\ [][NextFallback]_vars

-----------------------------------------------------------------------------
(* Claims on SpecFallback                                                  *)

\* the queries with a numeric, finite value of the metric
ValidQueries(name) ==
    {q \in DOMAIN input.results :
        /\ name \in DOMAIN input.results[q]
        /\ input.results[q][name] \notin {NaN, PosInf, -PosInf}}

\* C17: every requested metric is in the mapping returned by the fallback:
\* mapped to the not-a-number sentinel when no valid per-query value remains
\* for it, and else to the mean of the valid values alone.
C17_MetricNeverOmitted ==
    pc = "aggregated" =>
        \A name \in input.metrics :
            /\ name \in DOMAIN result
            /\ IF ValidQueries(name) = {} THEN result[name] = NaN
               ELSE LET total == SumOver(ValidQueries(name),
                                [q \in ValidQueries(name) |-> input.results[q][name]])
                        count == Cardinality(ValidQueries(name))
                    IN  /\ result[name] * count <= total
                        /\ total < (result[name] + 1) * count

-----------------------------------------------------------------------------
(* TrecEvalWrapper.evaluate: eval_cli/scoring/trec_eval.py, with the two   *)
(* evaluators it calls.  The judgements of the model give each judged      *)
(* query one relevant document, of grade 1, so that the ideal DCG of a     *)
(* query is 1; the scores of a query's rows are distinct.                  *)

TimeoutSeconds == 120       \* subprocess.run(..., timeout=120)
TenThousandth == MicroScale \div 10000     \* 1e-4, in metric units

\* config.trec_eval.flags
DefaultFlags == <<"-c">>

\* 1 / log2(i + 1) for the ranks 1..10, in metric units
Discount ==
    <<1000000, 630930, 500000, 430677, 386853, 356207, 333333, 315465,
      301030, 289065>>

\* the set of the elements of a sequence
Elements(seq) == {seq[i] : i \in 1..Len(seq)}

\* the queries with rows in the run / with judgements
QueriesOfRun(rows) == {rows[i].query_id : i \in 1..Len(rows)}
QueriesOfQrels(entries) == {entries[i].query_id : i \in 1..Len(entries)}

\* the relevance grade of the document for the query, 0 when not judged
GradeOf(entries, q, d) ==
    IF \E i \in 1..Len(entries) : entries[i].query_id = q /\ entries[i].doc_id = d
    THEN entries[CHOOSE i \in 1..Len(entries) :
                     /\ entries[i].query_id = q /\ entries[i].doc_id = d
                     /\ \A j \in (i + 1)..Len(entries) :
                          ~(entries[j].query_id = q /\ entries[j].doc_id = d)].relevance
    ELSE 0

\* the position of row i in the ranking of its query by decreasing score
PositionOf(rows, i) ==
    1 + Cardinality({j \in 1..Len(rows) :
            rows[j].query_id = rows[i].query_id /\ rows[j].score > rows[i].score})

\* the rows of the query that hold a relevant document
RelevantRows(entries, rows, q) ==
    {i \in 1..Len(rows) :
        rows[i].query_id = q /\ GradeOf(entries, q, rows[i].doc_id) > 0}

\* the value of the metric for one query; 0 for a query without rows
per_query_value(entries, rows, q, name) ==
    LET rel == RelevantRows(entries, rows, q)
        positions == {PositionOf(rows, i) : i \in rel}
    IN  IF name = RecipRank
        THEN IF positions = {} THEN 0
             ELSE MicroScale \div (CHOOSE p \in positions : \A r \in positions : p <= r)
        ELSE SumOver({p \in positions : p <= TopK}, [p \in 1..TopK |-> Discount[p]])

\* pytrec_eval.RelevanceEvaluator(qrels_data, metrics).evaluate(run_data):
\* values for the queries of the run that have judgements
pytrec_evaluate(entries, rows, requested) ==
    [q \in QueriesOfRun(rows) \cap QueriesOfQrels(entries) |->
        [name \in Elements(requested) |-> per_query_value(entries, rows, q, name)]]

\* TrecEvalWrapper._fallback_evaluate(qrels_path, run_path, metrics)
fallback_evaluate(entries, rows, requested) ==
    aggregate_results(pytrec_evaluate(entries, rows, requested))

\* "%6.4f" of a non-negative metric value
FormatFixed4(value) ==
    LET tenk == RoundHalfEven(value, TenThousandth)
    IN  NatToStr(tenk \div 10000) \o <<".">> \o ZeroPad(NatToStr(tenk % 10000), 4)

\* the standard output of `trec_eval <flags> -m <metric>... qrels run`: one
\* line '<metric> all <value>' per metric, the value being the mean over the
\* judged queries with -c (a judged query without rows counting 0) and over
\* the judged queries of the run without it
trec_eval_stdout(entries, rows, flags, requested) ==
    LET averaged == IF "-c" \in Elements(flags)
                    THEN QueriesOfQrels(entries)
                    ELSE QueriesOfQrels(entries) \cap QueriesOfRun(rows)
        mean(name) == SumOver(averaged,
                          [q \in averaged |-> per_query_value(entries, rows, q, name)])
                      \div Cardinality(averaged)
    IN  Concat([k \in 1..Len(requested) |->
            requested[k] \o <<SPACE, SPACE, TAB>> \o AllToken \o <<TAB>>
            \o FormatFixed4(mean(requested[k])) \o <<NL>>])

\* a parsed mapping with its values in metric units
InMicro(parsed) == [name \in DOMAIN parsed |-> parsed[name] \div MicroPerNano]

QrelsPath == <<"qrels.txt">>
RunPath == <<"run.tsv">>

Exception(type, message) == Raised([type |-> type, message |-> message])

\* mutant: only the qrels file is looked for
missing_input_qrels_only(env) ==
    IF ~env.qrels_exists
    THEN Some(Exception("FileNotFoundError", <<"Qrels file not found: ">> \o QrelsPath))
    ELSE None

\* the checks at the head of evaluate: the error raised, if any
missing_input(env) ==
    IF ~env.qrels_exists
    THEN Some(Exception("FileNotFoundError", <<"Qrels file not found: ">> \o QrelsPath))
    ELSE IF ~env.run_exists
    THEN Some(Exception("FileNotFoundError", <<"Run file not found: ">> \o RunPath))
    ELSE None

\* mutant: any failure of the process is handled as a missing binary
subprocess_outcome_lenient(process) ==
    IF process.launch = "not_found" THEN "FileNotFoundError"
    ELSE IF process.launch = "permission_denied" THEN "PermissionError"
    ELSE IF process.runtime > TimeoutSeconds THEN "TimeoutExpired"
    ELSE IF process.returncode # 0 THEN "FileNotFoundError"
    ELSE "completed"

\* subprocess.run(cmd, capture_output=True, text=True, check=True,
\* timeout=120): completion, or the exception raised
subprocess_outcome(process) ==
    IF process.launch = "not_found" THEN "FileNotFoundError"
    ELSE IF process.launch = "permission_denied" THEN "PermissionError"
    ELSE IF process.runtime > TimeoutSeconds THEN "TimeoutExpired"
    ELSE IF process.returncode # 0 THEN "CalledProcessError"
    ELSE "completed"

\* mutant: the error of a non-zero exit status without the stderr text
called_process_error_bare(stderr) ==
    Exception("RuntimeError", <<"trec_eval failed">>)

\* RuntimeError(f"trec_eval failed: {e.stderr}")
called_process_error(stderr) ==
    Exception("RuntimeError", <<"trec_eval failed: ">> \o stderr)

timeout_error ==
    Exception("RuntimeError", <<"trec_eval timed out after 120 seconds. ",
        "This may indicate a problem with the input files or system performance.">>)

-----------------------------------------------------------------------------
(* Specification SpecEvaluate: one call of TrecEvalWrapper.evaluate        *)

MaxEvalRows == 2    \* rows of one query of a run given to the evaluators

\* judgements: the document D5 relevant for each query of a non-empty set
EvalQrels ==
    {SelectSeq([i \in 1..MaxEvalQueries |->
                   QrelEntry(<<"q">> \o NatToStr(i), D5, IF judged[i] THEN 1 ELSE -1)],
               LAMBDA e : e.relevance > 0) :
        judged \in [1..MaxEvalQueries -> BOOLEAN] \ {[i \in 1..MaxEvalQueries |-> FALSE]}}

\* runs: each query without rows, or with MaxEvalRows rows and D5 at one of
\* the ranks or at none
EvalRuns ==
    {Concat([i \in 1..MaxEvalQueries |->
                IF at[i] < 0 THEN <<>>
                ELSE RankedRows(<<"q">> \o NatToStr(i), MaxEvalRows, at[i])]) :
        at \in [1..MaxEvalQueries -> -1..MaxEvalRows]}

\* how the external process behaves: whether it can be launched, how long it
\* runs, its exit status and its stderr text
ProcessBehaviours ==
    {[launch |-> l, runtime |-> 0, returncode |-> 0, stderr |-> <<>>] :
        l \in {"not_found", "permission_denied"}}
    \cup {[launch |-> "started", runtime |-> t, returncode |-> 0, stderr |-> <<>>] :
            t \in {1, TimeoutSeconds + 1}}
    \cup {[launch |-> "started", runtime |-> 1, returncode |-> 1, stderr |-> e] :
            e \in {<<"trec_eval: Cannot read qrels file">>, <<"malformed line">>}}

EvalEnvironments ==
    [qrels_exists : BOOLEAN, run_exists : BOOLEAN, process : ProcessBehaviours,
     flags : {DefaultFlags},
     metrics : {<<NdcgCut10>>, <<NdcgCut10, RecipRank>>}]

InitEvaluate ==
    /\ pc = "start"
    /\ cmd = "evaluate"
    /\ input \in EvalEnvironments
    /\ qrels \in EvalQrels
    /\ run \in EvalRuns
    /\ result = NoValue
    /\ log = <<>>
    /\ responses = NoValue
    /\ run_id = NoValue
    /\ errors = NoValue
    /\ file = NoValue
    /\ loaded = NoValue
    /\ skipped = NoValue
    /\ mode = NoValue
    /\ metrics = NoValue
    /\ targets = NoValue
    /\ report = NoValue

evalFrame == <<cmd, input, responses, run_id, run, errors, file, loaded, skipped,
               qrels, mode, kpiVars>>

\* lines 32-35: the two existence checks
CheckInputFiles ==
    /\ pc = "start"
    /\ IF missing_input(input) # None
       THEN /\ result' = missing_input(input)[1]
            /\ pc' = "raised"
       ELSE /\ pc' = "checked"
            /\ UNCHANGED result
    /\ UNCHANGED <<log, evalFrame>>

\* lines 44-59: the command is built and the process is run, once
RunSubprocess ==
    /\ pc = "checked"
    /\ log' = Append(log, "subprocess.run")
    /\ pc' = subprocess_outcome(input.process)
    /\ UNCHANGED <<result, evalFrame>>

\* line 61: return self._parse_output(result.stdout)
ReturnParsedOutput ==
    /\ pc = "completed"
    /\ log' = Append(log, "_parse_output")
    /\ result' = InMicro(parse_output(
                     trec_eval_stdout(qrels, run, input.flags, input.metrics)))
    /\ pc' = "returned"
    /\ UNCHANGED evalFrame

\* lines 63-68: except subprocess.TimeoutExpired
RaiseTimeout ==
    /\ pc = "TimeoutExpired"
    /\ result' = timeout_error
    /\ pc' = "raised"
    /\ UNCHANGED <<log, evalFrame>>

\* lines 69-70: except subprocess.CalledProcessError
RaiseCalledProcessError ==
    /\ pc = "CalledProcessError"
    /\ result' = called_process_error(input.process.stderr)
    /\ pc' = "raised"
    /\ UNCHANGED <<log, evalFrame>>

\* lines 71-77: except FileNotFoundError
ReturnFallback ==
    /\ pc = "FileNotFoundError"
    /\ log' = Append(log, "_fallback_evaluate")
    /\ result' = fallback_evaluate(qrels, run, input.metrics)
    /\ pc' = "returned"
    /\ UNCHANGED evalFrame

\* an exception that no except clause names leaves evaluate as it is
PropagateOSError ==
    /\ pc = "PermissionError"
    /\ result' = Exception("PermissionError", <<"Permission denied: ", "trec_eval">>)
    /\ pc' = "raised"
    /\ UNCHANGED <<log, evalFrame>>

NextEvaluate ==
    \/ CheckInputFiles
    \/ RunSubprocess
    \/ ReturnParsedOutput
    \/ RaiseTimeout
    \/ RaiseCalledProcessError
    \/ ReturnFallback
    \/ PropagateOSError

SpecEvaluate == InitEvaluate /\ [][NextEvaluate]_vars

-----------------------------------------------------------------------------
(* Claims on SpecEvaluate                                                  *)

EvaluateEnded == pc \in {"returned", "raised"}
Invoked(step) == \E i \in 1..Len(log) : log[i] = step
FilesExist == input.qrels_exists /\ input.run_exists

\* C13: when the qrels file or the run file does not exist, evaluate raises
\* an error naming the missing path, and neither the external process nor
\* the fallback is invoked.
C13_FailFastOnMissingInput ==
    (~FilesExist /\ pc # "start") =>
        /\ pc = "raised"
        /\ result.raised.type = "FileNotFoundError"
        /\ SubSeq(result.raised.message, 2, Len(result.raised.message))
             = (IF ~input.qrels_exists THEN QrelsPath ELSE RunPath)
        /\ log = <<>>

\* C13 witness: the qrels file exists, the run file does not, and the call
\* has ended
C13_Witness ==
    /\ pc = "raised"
    /\ input.qrels_exists /\ ~input.run_exists
    /\ result.raised.message = <<"Run file not found: ">> \o RunPath

\* C14: the fallback runs if and only if the external binary is not found;
\* after a non-zero exit status or a timeout the call ends with an error and
\* the fallback has not run.
C14_FallbackOnlyWhenBinaryMissing ==
    /\ Invoked("_fallback_evaluate") => input.process.launch = "not_found"
    /\ (EvaluateEnded /\ FilesExist /\ input.process.launch = "not_found")
            => (pc = "returned" /\ Invoked("_fallback_evaluate"))
    /\ (EvaluateEnded /\ FilesExist /\ input.process.launch # "not_found"
            /\ (input.process.returncode # 0 \/ input.process.runtime > TimeoutSeconds))
            => (pc = "raised" /\ ~Invoked("_fallback_evaluate"))

\* C14 witness: the process exits with a non-zero status and the call ends
\* with an error
C14_Witness ==
    /\ pc = "raised"
    /\ FilesExist
    /\ input.process.launch = "started"
    /\ input.process.returncode # 0
    /\ log = <<"subprocess.run">>

\* what holds of one call at every moment
C15_PointOperation ==
    /\ Cardinality({i \in 1..Len(log) : log[i] = "subprocess.run"}) <= 1
    /\ (EvaluateEnded /\ FilesExist /\ input.process.launch = "started"
            /\ input.process.runtime > TimeoutSeconds)
        => /\ pc = "raised"
           /\ result = timeout_error
           /\ log = <<"subprocess.run">>
    /\ (EvaluateEnded /\ FilesExist /\ input.process.launch = "started"
            /\ input.process.runtime <= TimeoutSeconds /\ input.process.returncode # 0)
        => /\ pc = "raised"
           /\ result.raised.type = "RuntimeError"
           /\ \E k \in 1..Len(result.raised.message) :
                SubSeq(result.raised.message, k, Len(result.raised.message))
                    = input.process.stderr
           /\ log = <<"subprocess.run">>

\* the number of steps of evaluate that can still follow a position
StepsLeft(position) ==
    CASE position = "start" -> 3
      [] position = "checked" -> 2
      [] position \in {"returned", "raised"} -> 0
      [] OTHER -> 1

OtherPath ==
    IF Invoked("_fallback_evaluate")
    THEN InMicro(parse_output(trec_eval_stdout(qrels, run, input.flags, input.metrics)))
    ELSE fallback_evaluate(qrels, run, input.metrics)

\* C18: for the same qrels and run, the external path and the fallback path
\* return the same value of each requested metric, within 1e-4, also when
\* some judged query has no rows in the run.
C18_FallbackEquivalent ==
    pc = "returned" =>
        \A name \in Elements(input.metrics) :
            /\ name \in DOMAIN result
            /\ name \in DOMAIN OtherPath
            /\ Abs(result[name] - OtherPath[name]) <= TenThousandth

-----------------------------------------------------------------------------
(* Specification SpecRead: read_trec_run on a file of any lines            *)

MaxReadLines == 2   \* lines of a run file given to the reader

\* a well-formed line of six fields, and lines that differ from it in the
\* rank (no integer, zero, a decimal), in the score (no number, nan), in the
\* run id (empty), in the number of fields (five, seven), in the separator
\* (spaces), and the empty line
ReadFields == <<Q1, Q0, D5, <<"1">>, <<"0", ".", "5">>, <<"r", "1">>>>
ReadLineTexts ==
    {JoinWith(ReadFields, TAB),
     JoinWith([ReadFields EXCEPT ![1] = Q2, ![4] = <<"2">>], TAB),
     JoinWith([ReadFields EXCEPT ![4] = <<"x">>], TAB),
     JoinWith([ReadFields EXCEPT ![4] = <<"0">>], TAB),
     JoinWith([ReadFields EXCEPT ![4] = <<"1", ".", "0">>], TAB),
     JoinWith([ReadFields EXCEPT ![5] = <<"a", "b", "c">>], TAB),
     JoinWith([ReadFields EXCEPT ![5] = <<"n", "a", "n">>], TAB),
     JoinWith([ReadFields EXCEPT ![6] = <<>>], TAB),
     JoinWith(SubSeq(ReadFields, 1, 5), TAB),
     JoinWith(Append(ReadFields, <<"x">>), TAB),
     JoinWith(ReadFields, SPACE),
     <<>>}

ReadFiles == UNION {[1..n -> ReadLineTexts] : n \in 0..MaxReadLines}

InitRead ==
    /\ pc = "start"
    /\ cmd = "read_trec_run"
    /\ file \in ReadFiles
    /\ input = NoValue
    /\ loaded = NoValue
    /\ skipped = NoValue
    /\ responses = NoValue
    /\ run_id = NoValue
    /\ run = NoValue
    /\ errors = NoValue
    /\ qrels = NoValue
    /\ result = NoValue
    /\ log = <<>>
    /\ mode = NoValue
    /\ metrics = NoValue
    /\ targets = NoValue
    /\ report = NoValue

\* trec_run = read_trec_run(file_path)
ReadFile ==
    /\ pc = "start"
    /\ LET r == read_trec_run(file)
       IN  /\ loaded' = r.rows
           /\ skipped' = r.skipped_lines
    /\ pc' = "read"
    /\ UNCHANGED <<cmd, input, responses, run_id, run, errors, file, qrels, result,
                   log, mode, kpiVars>>

NextRead == ReadFile

SpecRead == InitRead /\ [][NextRead]_vars

-----------------------------------------------------------------------------
(* Claims on SpecRead                                                      *)

\* the tab-separated fields of line i of the file
TabFields(i) == Split(file[i], TAB)

\* line i splits into six tab-separated fields, its rank is an integer
\* greater than 0 and its score a finite number
IsRowLine(i) ==
    /\ Len(TabFields(i)) = 6
    /\ ParseInt(TabFields(i)[4]).ok
    /\ ParseInt(TabFields(i)[4]).val > 0
    /\ ParseFloat(TabFields(i)[5]).ok

RowLines == SelectSeq([i \in 1..Len(file) |-> i], IsRowLine)

\* C19: read_trec_run skips every line that does not split into exactly six
\* tab-separated fields or whose rank or score does not parse or violates
\* the row constraints; it returns exactly the other lines, as rows, in file
\* order; it counts the skipped lines, and rows returned + lines skipped =
\* lines of the file.
C19_SkipsExactlyMalformedLines ==
    pc = "read" =>
        /\ Len(loaded) + skipped = Len(file)
        /\ Len(loaded) = Len(RowLines)
        /\ \A k \in 1..Len(RowLines) :
            /\ k <= Len(loaded)
            /\ loaded[k].query_id = TabFields(RowLines[k])[1]
            /\ loaded[k].doc_id = TabFields(RowLines[k])[3]
            /\ loaded[k].rank = ParseInt(TabFields(RowLines[k])[4]).val
            /\ loaded[k].run_id = TabFields(RowLines[k])[6]

-----------------------------------------------------------------------------
(* load_qrels: eval_cli/io/qrels.py                                        *)

\* mutant: a missing 4th field gives relevance 0
ParseRelevanceDefaultZero(parts) ==
    IF Len(parts) > 3 THEN ParseInt(parts[4]) ELSE [ok |-> TRUE, val |-> 0]

\* relevance = int(parts[3]) if len(parts) > 3 else 1
ParseRelevance(parts) ==
    IF Len(parts) > 3 THEN ParseInt(parts[4]) ELSE [ok |-> TRUE, val |-> 1]

\* one line of load_qrels: the entry it yields, or the counter it increments
LoadQrelLine(line) ==
    LET parts == SplitWhite(StripWhite(line), -1)
        relevance == ParseRelevance(parts)
    IN  IF Len(parts) < 3 THEN [outcome |-> "malformed"]
        ELSE IF ~relevance.ok \/ relevance.val < 0
        THEN [outcome |-> "invalid_relevance"]
        ELSE [outcome |-> "entry",
              entry |-> QrelEntry(parts[1], parts[3], relevance.val)]

\* load_qrels(file_path): the entries in file order, and the stats
load_qrels(lines) ==
    LET parsed == [i \in 1..Len(lines) |-> LoadQrelLine(lines[i])]
        kept == SelectSeq(parsed, LAMBDA r : r.outcome = "entry")
        count(o) == Cardinality({i \in 1..Len(lines) : parsed[i].outcome = o})
    IN  [entries |-> [i \in 1..Len(kept) |-> kept[i].entry],
         stats |-> [malformed |-> count("malformed"),
                    invalid_relevance |-> count("invalid_relevance")]]

-----------------------------------------------------------------------------
(* Specification SpecQrels: load_qrels on a file of any lines              *)

MaxQrelLines == 2   \* lines of a qrels file given to the loader

\* lines of four fields with relevance 1, 0, 2, -1, a word and a decimal; of
\* three fields; of five fields; of two fields; tab-separated; empty
QrelLineTexts ==
    {JoinWith(<<Q1, <<"0">>, D5, r>>, SPACE) :
        r \in {<<"1">>, <<"0">>, <<"2">>, <<"-", "1">>, <<"x">>, <<"1", ".", "5">>}}
    \cup {JoinWith(<<Q2, <<"0">>, D5>>, SPACE),
          JoinWith(<<Q2, <<"0">>, D5, <<"1">>, <<"x">>>>, SPACE),
          JoinWith(<<Q1, D5>>, SPACE),
          JoinWith(<<Q2, <<"0">>, D5, <<"3">>>>, TAB),
          <<>>}

\* the lines as the file iterator gives them, each ended by a newline
QrelFiles ==
    UNION {[1..n -> {Append(l, NL) : l \in QrelLineTexts}] : n \in 0..MaxQrelLines}

InitQrels ==
    /\ pc = "start"
    /\ cmd = "load_qrels"
    /\ file \in QrelFiles
    /\ input = NoValue
    /\ qrels = NoValue
    /\ result = NoValue
    /\ loaded = NoValue
    /\ skipped = NoValue
    /\ responses = NoValue
    /\ run_id = NoValue
    /\ run = NoValue
    /\ errors = NoValue
    /\ log = <<>>
    /\ mode = NoValue
    /\ metrics = NoValue
    /\ targets = NoValue
    /\ report = NoValue

\* qrels, stats = load_qrels(qrels_file)
LoadQrels ==
    /\ pc = "start"
    /\ LET r == load_qrels(file)
       IN  /\ qrels' = r.entries
           /\ result' = r.stats
    /\ pc' = "loaded"
    /\ UNCHANGED <<cmd, input, responses, run_id, run, errors, file, loaded, skipped,
                   log, mode, kpiVars>>

NextQrels == LoadQrels

SpecQrels == InitQrels /\ [][NextQrels]_vars

-----------------------------------------------------------------------------
(* Claims on SpecQrels                                                     *)

\* the whitespace-separated fields of line i of the qrels file
QrelFields(i) == SplitWhite(file[i], -1)

\* the 4th field of line i is present and is no non-negative integer
BadRelevance(i) ==
    /\ Len(QrelFields(i)) > 3
    /\ ~(ParseInt(QrelFields(i)[4]).ok /\ ParseInt(QrelFields(i)[4]).val >= 0)

JudgementLines ==
    SelectSeq([i \in 1..Len(file) |-> i],
              LAMBDA i : Len(QrelFields(i)) >= 3 /\ ~BadRelevance(i))

\* C20: load_qrels yields one judgement for each line of at least 3 fields
\* whose relevance, when present, is a non-negative integer: query_id =
\* field 1, doc_id = field 3, relevance = field 4, or 1 without a 4th field;
\* a line of fewer than 3 fields counts as malformed and a line with another
\* relevance as invalid_relevance; entries + malformed + invalid_relevance =
\* number of lines.
C20_QrelsLinesAccounted ==
    pc = "loaded" =>
        /\ Len(qrels) + result.malformed + result.invalid_relevance = Len(file)
        /\ result.malformed =
             Cardinality({i \in 1..Len(file) : Len(QrelFields(i)) < 3})
        /\ result.invalid_relevance =
             Cardinality({i \in 1..Len(file) : Len(QrelFields(i)) >= 3 /\ BadRelevance(i)})
        /\ Len(qrels) = Len(JudgementLines)
        /\ \A k \in 1..Len(JudgementLines) :
            LET fields == QrelFields(JudgementLines[k])
            IN  /\ k <= Len(qrels)
                /\ qrels[k].query_id = fields[1]
                /\ qrels[k].doc_id = fields[3]
                /\ qrels[k].relevance =
                     (IF Len(fields) > 3 THEN ParseInt(fields[4]).val ELSE 1)

\* C20 witness: a line of three fields gives a judgement of relevance 1, and
\* a line with a negative relevance is counted as invalid
C20_Witness ==
    /\ pc = "loaded"
    /\ Len(file) = 2
    /\ Len(QrelFields(1)) = 3
    /\ Len(qrels) = 1
    /\ qrels[1].relevance = 1
    /\ result.invalid_relevance = 1
    /\ ParseInt(QrelFields(2)[4]).val < 0


-----------------------------------------------------------------------------
(* Lookups of Qrels and coverage statistics: eval_cli/io/qrels.py,         *)
(* eval_cli/scoring/custom_metrics.py                                      *)

\* Qrels.get_relevance_grades(query_id): a dict comprehension over the
\* entries in order, so a later entry of the same document replaces an
\* earlier one
get_relevance_grades(entries, query_id) ==
    LET idx == {i \in 1..Len(entries) : entries[i].query_id = query_id}
        last(d) == CHOOSE i \in idx :
                       /\ entries[i].doc_id = d
                       /\ \A j \in idx : entries[j].doc_id = d => j <= i
    IN  [d \in {entries[i].doc_id : i \in idx} |-> entries[last(d)].relevance]

\* Qrels.get_query_ids()
get_query_ids(entries) == {entries[i].query_id : i \in 1..Len(entries)}

\* {row.doc_id for row in results} of the rows of one query
RetrievedDocs(rows, query_id) ==
    {rows[i].doc_id : i \in {i \in 1..Len(rows) : rows[i].query_id = query_id}}

\* compute_coverage_stats(trec_run, qrels)
compute_coverage_stats(rows, entries) ==
    LET query_results == {rows[i].query_id : i \in 1..Len(rows)}
        judged == {q \in query_results : get_relevant_docs(entries, q) # {}}
    IN  [queries_with_judgements |-> Cardinality(judged),
         queries_without_judgements |-> Cardinality(query_results \ judged),
         total_relevant_docs |->
             SumOver(judged,
                     [q \in judged |-> Cardinality(get_relevant_docs(entries, q))]),
         retrieved_relevant_docs |->
             SumOver(judged,
                     [q \in judged |->
                         Cardinality(RetrievedDocs(rows, q)
                                     \cap get_relevant_docs(entries, q))])]

-----------------------------------------------------------------------------
(* Specification SpecJudgements: the lookups of a Qrels collection and     *)
(* compute_coverage_stats on a run and the collection                      *)

MaxJudgements == 2    \* entries of a judgements collection

X1 == <<"x", "1">>

\* judgements of D5 and x1 for q1 and q2 with grades 0 and 1, in any order
\* and with repeated (query_id, doc_id) pairs
JudgementEntries ==
    {QrelEntry(q, d, r) : q \in {Q1, Q2}, d \in {D5, X1}, r \in 0..1}

JudgementLists == UNION {[1..n -> JudgementEntries] : n \in 0..MaxJudgements}

InitJudgements ==
    /\ pc = "start"
    /\ cmd = "judgements"
    /\ qrels \in JudgementLists
    /\ run \in EvalRuns
    /\ result = NoValue
    /\ input = NoValue
    /\ responses = NoValue
    /\ run_id = NoValue
    /\ errors = NoValue
    /\ file = NoValue
    /\ loaded = NoValue
    /\ skipped = NoValue
    /\ log = <<>>
    /\ mode = NoValue
    /\ metrics = NoValue
    /\ targets = NoValue
    /\ report = NoValue

\* both lookups, for every query of the collection
LookupJudgements ==
    /\ pc = "start"
    /\ result' = [relevant_docs |->
                      [q \in get_query_ids(qrels) |-> get_relevant_docs(qrels, q)],
                  relevance_grades |->
                      [q \in get_query_ids(qrels) |-> get_relevance_grades(qrels, q)]]
    /\ pc' = "looked_up"
    /\ UNCHANGED <<cmd, input, responses, run_id, run, errors, file, loaded, skipped,
                   qrels, log, mode, kpiVars>>

ComputeCoverage ==
    /\ pc = "start"
    /\ result' = compute_coverage_stats(run, qrels)
    /\ pc' = "covered"
    /\ UNCHANGED <<cmd, input, responses, run_id, run, errors, file, loaded, skipped,
                   qrels, log, mode, kpiVars>>

NextJudgements == LookupJudgements \/ ComputeCoverage

SpecJudgements == InitJudgements /\ [][NextJudgements]_vars

-----------------------------------------------------------------------------
(* Claims on SpecJudgements                                                *)

\* C21: the two lookups treat repeated (query_id, doc_id) judgements alike:
\* for every query q and document d, d is in get_relevant_docs(q) if and only
\* if get_relevance_grades(q) maps d to a grade above 0.
C21_LookupsConsistent ==
    pc = "looked_up" =>
        \A q \in DOMAIN result.relevant_docs : \A d \in {D5, X1} :
            d \in result.relevant_docs[q]
                <=> (/\ d \in DOMAIN result.relevance_grades[q]
                     /\ result.relevance_grades[q][d] > 0)

\* C22: every distinct query of the run counts under queries_with_judgements
\* if and only if the judgements hold at least one entry for it, of any
\* grade, and under queries_without_judgements otherwise; total_relevant_docs
\* sums the sizes of the relevant sets of the run's queries and
\* retrieved_relevant_docs the sizes of retrieved doc ids \cap relevant set.
C22_CoverageByJudgementExistence ==
    pc = "covered" =>
        LET queries == {run[i].query_id : i \in 1..Len(run)}
            judged == queries \cap {qrels[i].query_id : i \in 1..Len(qrels)}
            relevant(q) == {qrels[i].doc_id : i \in {i \in 1..Len(qrels) :
                               qrels[i].query_id = q /\ qrels[i].relevance > 0}}
            retrieved(q) == {run[i].doc_id : i \in {i \in 1..Len(run) :
                                run[i].query_id = q}}
        IN  /\ result.queries_with_judgements = Cardinality(judged)
            /\ result.queries_without_judgements = Cardinality(queries \ judged)
            /\ result.total_relevant_docs =
                 SumOver(queries, [q \in queries |-> Cardinality(relevant(q))])
            /\ result.retrieved_relevant_docs =
                 SumOver(queries, [q \in queries |->
                                      Cardinality(retrieved(q) \cap relevant(q))])


-----------------------------------------------------------------------------
(* Specification SpecRows: the rows a TrecRun holds, built by              *)
(* build_trec_run from responses or read by read_trec_run from a file      *)

MaxRowLines == 2    \* lines of a run file, segments of a query

\* the well-formed line, and lines with another placeholder, an empty
\* doc_id, rank 0 and a score that is no number
RowLineTexts ==
    {JoinWith(ReadFields, TAB),
     JoinWith([ReadFields EXCEPT ![2] = <<"X", "X">>], TAB),
     JoinWith([ReadFields EXCEPT ![2] = <<"q", "0">>], TAB),
     JoinWith([ReadFields EXCEPT ![3] = <<>>], TAB),
     JoinWith([ReadFields EXCEPT ![4] = <<"0">>], TAB),
     JoinWith([ReadFields EXCEPT ![5] = <<"n", "a", "n">>], TAB)}

RowFiles == UNION {[1..n -> RowLineTexts] : n \in 0..MaxRowLines}

\* responses of one query, the query id and the segment ids possibly empty
RowResponses ==
    {<<QueryResult(q, s)>> :
        q \in {Q1, <<>>},
        s \in UNION {[1..n -> [segment_id : {D5, <<>>}, score : {NanoScale \div 2}]] :
                        n \in 0..MaxRowLines}}

InitRows ==
    /\ pc = "start"
    /\ cmd \in {"build_trec_run", "read_trec_run"}
    /\ IF cmd = "build_trec_run"
       THEN /\ responses \in RowResponses
            /\ run_id \in RunIds
            /\ file = NoValue
       ELSE /\ responses = NoValue
            /\ run_id = NoValue
            /\ file \in RowFiles
    /\ run = NoValue
    /\ skipped = NoValue
    /\ input = NoValue
    /\ loaded = NoValue
    /\ errors = NoValue
    /\ qrels = NoValue
    /\ result = NoValue
    /\ log = <<>>
    /\ mode = NoValue
    /\ metrics = NoValue
    /\ targets = NoValue
    /\ report = NoValue

\* trec_run = build_trec_run(responses, run_id, metadata)
BuildRun ==
    /\ pc = "start"
    /\ cmd = "build_trec_run"
    /\ run' = build_trec_run(responses, run_id)
    /\ pc' = "held"
    /\ UNCHANGED <<cmd, input, responses, run_id, errors, file, loaded, skipped,
                   qrels, result, log, mode, kpiVars>>

\* trec_run = read_trec_run(file_path)
ReadRun ==
    /\ pc = "start"
    /\ cmd = "read_trec_run"
    /\ LET r == read_trec_run(file)
       IN  /\ run' = r.rows
           /\ skipped' = r.skipped_lines
    /\ pc' = "held"
    /\ UNCHANGED <<cmd, input, responses, run_id, errors, file, loaded, qrels,
                   result, log, mode, kpiVars>>

NextRows == BuildRun \/ ReadRun

SpecRows == InitRows /\ [][NextRows]_vars

-----------------------------------------------------------------------------
(* Claims on SpecRows                                                      *)

\* C24: every row a run holds, whether built from responses or read from a
\* file, has a non-empty query_id, a non-empty doc_id, the placeholder "Q0",
\* a rank of at least 1 and a finite score.
C24_RowsWellFormed ==
    pc = "held" =>
        \A i \in 1..Len(run) :
            /\ run[i].query_id # <<>>
            /\ run[i].doc_id # <<>>
            /\ run[i].q0 = <<"Q", "0">>
            /\ run[i].rank >= 1
            /\ IsFinite(run[i].score)


-----------------------------------------------------------------------------
(* Experiment names: eval_cli/commands/pipeline.py                         *)

UNDERSCORE == "_"

\* `if value:` of an optional string: None and the empty string are false
Truthy(opt) == opt # None /\ opt[1] # <<>>

\* the wall clock counts ticks, TicksPerSecond to the second, from
\* 2025-01-01 00:00:00; datetime.now() at a tick
Now(clock, ticksPerSecond) ==
    LET sec == clock \div ticksPerSecond
    IN  [year |-> 2025, month |-> 1, day |-> 1 + (sec \div 86400),
         hour |-> (sec \div 3600) % 24, minute |-> (sec \div 60) % 60,
         second |-> sec % 60, tick |-> clock % ticksPerSecond]

\* dt.strftime("%Y%m%d_%H%M%S")
strftime(dt) ==
    ZeroPad(NatToStr(dt.year), 4) \o ZeroPad(NatToStr(dt.month), 2)
        \o ZeroPad(NatToStr(dt.day), 2) \o <<UNDERSCORE>>
        \o ZeroPad(NatToStr(dt.hour), 2) \o ZeroPad(NatToStr(dt.minute), 2)
        \o ZeroPad(NatToStr(dt.second), 2)

\* datetime.strptime(text, "%Y%m%d_%H%M%S") for texts whose digit fields
\* have their full width: eight digits, the underscore, six digits, each
\* field in its range; ValueError otherwise
strptime(text) ==
    LET parts == Split(text, UNDERSCORE)
        date == parts[1]
        time == parts[2]
        shaped == /\ Len(parts) = 2
                  /\ Len(date) = 8 /\ AllDigits(date)
                  /\ Len(time) = 6 /\ AllDigits(time)
        dt == [year |-> DigitsToNat(SubSeq(date, 1, 4), 0),
               month |-> DigitsToNat(SubSeq(date, 5, 6), 0),
               day |-> DigitsToNat(SubSeq(date, 7, 8), 0),
               hour |-> DigitsToNat(SubSeq(time, 1, 2), 0),
               minute |-> DigitsToNat(SubSeq(time, 3, 4), 0),
               second |-> DigitsToNat(SubSeq(time, 5, 6), 0),
               tick |-> 0]
    IN  IF shaped /\ dt.year >= 1 /\ dt.month \in 1..12 /\ dt.day \in 1..31
           /\ dt.hour < 24 /\ dt.minute < 60 /\ dt.second < 62
        THEN [ok |-> TRUE, val |-> dt]
        ELSE [ok |-> FALSE]

\* generate_experiment_name(topics, mode, experiment_id), the clock read
\* being now
generate_experiment_name(topics, mode_opt, experiment_id, now) ==
    LET timestamp == strftime(now)
        base == IF Truthy(experiment_id)
                THEN experiment_id[1] \o <<UNDERSCORE>> \o topics ELSE topics
        base_name == IF Truthy(mode_opt) THEN base \o <<UNDERSCORE>> \o mode_opt[1]
                     ELSE base
    IN  base_name \o <<UNDERSCORE>> \o timestamp

\* the loop body of list_experiments for one directory name: the experiment
\* listed, or the name skipped
ListedExperiment(exp_name) ==
    LET parts == Split(exp_name, UNDERSCORE)
        n == Len(parts)
        timestamp == strptime(parts[n])
    IN  IF n \notin {3, 4} THEN [ok |-> FALSE]
        ELSE IF ~timestamp.ok THEN [ok |-> FALSE]
        ELSE [ok |-> TRUE,
              experiment |->
                  [name |-> exp_name,
                   id |-> IF n = 4 THEN Some(parts[1]) ELSE None,
                   topics |-> parts[n - 2],
                   mode |-> parts[n - 1],
                   timestamp |-> timestamp.val]]

\* list_experiments() without filters over the directories found: the
\* experiments of the table, and the names left out
list_experiments(dirs) ==
    [experiments |-> {ListedExperiment(d).experiment :
                          d \in {d \in dirs : ListedExperiment(d).ok}},
     skipped |-> {d \in dirs : ~ListedExperiment(d).ok}]

-----------------------------------------------------------------------------
(* Specification SpecExperiments: two invocations of `pipeline run` (or    *)
(* `run-all`, which passes no mode) interleaved under a common clock and   *)
(* experiments directory, and `pipeline list`                              *)

TicksPerSecond == 2   \* clock ticks to the second
MaxTicks == 2         \* ticks of the clock during the two invocations

Procs == {1, 2}

Rag24 == <<"r", "a", "g", "2", "4">>
Hybrid == <<"h", "y", "b", "r", "i", "d">>
Exp1 == <<"e", "x", "p", "1">>
\* a directory that follows the documented three-part format
ManualDir == Rag24 \o <<UNDERSCORE>> \o Hybrid \o <<UNDERSCORE, "2", "0", "2", "5">>

ExperimentArgs ==
    [topics : {Rag24}, mode : {None, Some(Hybrid)}, experiment_id : {None, Some(Exp1)}]

\* the start of a day, the last tick of a minute and of a day
StartClocks == {0, 60 * TicksPerSecond - 1, 86400 * TicksPerSecond - 1}

InitExperiments ==
    /\ pc = [p \in Procs |-> "start"]
    /\ cmd = "pipeline"
    /\ input \in [args : [Procs -> ExperimentArgs], clock : StartClocks, ticks : {0}]
    /\ run_id = [p \in Procs |-> None]
    /\ file = [dirs |-> {ManualDir}, files |-> {}]
    /\ log = <<>>
    /\ loaded = {}
    /\ skipped = {}
    /\ result = NoValue
    /\ responses = NoValue
    /\ run = NoValue
    /\ errors = NoValue
    /\ qrels = NoValue
    /\ mode = NoValue
    /\ metrics = NoValue
    /\ targets = NoValue
    /\ report = NoValue

experimentFrame ==
    <<cmd, responses, run, errors, qrels, mode, metrics, targets, report>>

\* time passes
Tick ==
    /\ input.ticks < MaxTicks
    /\ input' = [input EXCEPT !.clock = @ + 1, !.ticks = @ + 1]
    /\ UNCHANGED <<pc, run_id, file, log, loaded, skipped, result, experimentFrame>>

\* experiment_name = generate_experiment_name(topics, mode, experiment_id);
\* run_id = experiment_name
GenerateName(p) ==
    /\ pc[p] = "start"
    /\ run_id' = [run_id EXCEPT ![p] =
                    Some(generate_experiment_name(input.args[p].topics,
                                                  input.args[p].mode,
                                                  input.args[p].experiment_id,
                                                  Now(input.clock, TicksPerSecond)))]
    /\ pc' = [pc EXCEPT ![p] = "named"]
    /\ UNCHANGED <<input, file, log, loaded, skipped, result, experimentFrame>>

OutputDir(p) == run_id[p][1]
RunFile(p) == OutputDir(p) \o <<"/">> \o run_id[p][1] \o <<".tsv">>
ReportFile(p) == OutputDir(p) \o <<"/">> \o run_id[p][1] \o <<"_report.json">>

\* output_dir.mkdir(parents=True, exist_ok=True)
MakeOutputDir(p) ==
    /\ pc[p] = "named"
    /\ file' = [file EXCEPT !.dirs = @ \cup {OutputDir(p)}]
    /\ log' = Append(log, [proc |-> p, path |-> OutputDir(p)])
    /\ pc' = [pc EXCEPT ![p] = "made"]
    /\ UNCHANGED <<input, run_id, loaded, skipped, result, experimentFrame>>

\* write_trec_run(trec_run, run_file)
WriteRunFile(p) ==
    /\ pc[p] = "made"
    /\ file' = [file EXCEPT !.files = @ \cup {RunFile(p)}]
    /\ log' = Append(log, [proc |-> p, path |-> RunFile(p)])
    /\ pc' = [pc EXCEPT ![p] = "run_written"]
    /\ UNCHANGED <<input, run_id, loaded, skipped, result, experimentFrame>>

\* json.dump(report.model_dump(), f) into report_file
WriteReportFile(p) ==
    /\ pc[p] = "run_written"
    /\ file' = [file EXCEPT !.files = @ \cup {ReportFile(p)}]
    /\ log' = Append(log, [proc |-> p, path |-> ReportFile(p)])
    /\ pc' = [pc EXCEPT ![p] = "done"]
    /\ UNCHANGED <<input, run_id, loaded, skipped, result, experimentFrame>>

\* pipeline list, once, at any moment
ListExperiments ==
    /\ result = NoValue
    /\ LET r == list_experiments(file.dirs)
       IN  /\ loaded' = r.experiments
           /\ skipped' = r.skipped
    /\ result' = "listed"
    /\ UNCHANGED <<pc, input, run_id, file, log, experimentFrame>>

NextExperiments ==
    \/ Tick
    \/ ListExperiments
    \/ \E p \in Procs :
        \/ GenerateName(p)
        \/ MakeOutputDir(p)
        \/ WriteRunFile(p)
        \/ WriteReportFile(p)

SpecExperiments == InitExperiments /\ [][NextExperiments]_vars

-----------------------------------------------------------------------------
(* Claims on SpecExperiments                                               *)

\* C25: generate_experiment_name gives each pipeline invocation a name of
\* its own, so under any interleaving of two invocations (of the same
\* topics, mode and experiment id as well) no output directory, run file or
\* report file is written by both.
C25_UniqueOutputs ==
    /\ \A p \in Procs : \A q \in Procs \ {p} :
        (run_id[p] # None /\ run_id[q] # None) => run_id[p] # run_id[q]
    /\ \A i \in 1..Len(log) : \A j \in 1..Len(log) :
        log[i].path = log[j].path => log[i].proc = log[j].proc

\* the directories `pipeline list` looked at
ListedDirs == skipped \cup {e.name : e \in loaded}

\* C28: every directory named by generate_experiment_name(topics, mode,
\* experiment_id) is listed by list_experiments, never skipped, and parsed
\* into the same topics, mode and timestamp.
C28_NamesRoundTrip ==
    result = "listed" =>
        \A p \in Procs :
            (run_id[p] # None /\ run_id[p][1] \in ListedDirs) =>
                \E e \in loaded :
                    /\ e.name = run_id[p][1]
                    /\ e.topics = input.args[p].topics
                    /\ Truthy(input.args[p].mode) => e.mode = input.args[p].mode[1]
                    /\ strftime(e.timestamp)
                         = SubSeq(e.name, Len(e.name) - 14, Len(e.name))


-----------------------------------------------------------------------------
(* Specification SpecQrelsValue: the value load_qrels returns, as its      *)
(* callers use it: unpacked into two names (commands/score.py,             *)
(* tests/conftest.py) or held under one name (tests/test_basic.py)         *)

\* a Qrels object, and a tuple object
QrelsObject(entries) == [type |-> "Qrels", entries |-> entries]
PyTuple(items) == [type |-> "tuple", items |-> items]

\* the value of `return qrels, stats`
load_qrels_value(lines) ==
    LET r == load_qrels(lines)
    IN  PyTuple(<<QrelsObject(r.entries), r.stats>>)

\* value.entries and value.get_query_ids() of an object: the attributes of
\* Qrels, AttributeError on a tuple
QrelsAttributes(value) ==
    IF value.type = "Qrels"
    THEN [entries |-> value.entries, query_ids |-> get_query_ids(value.entries)]
    ELSE Exception("AttributeError",
                   <<"'", value.type, "' object has no attribute 'entries'">>)

InitQrelsValue ==
    /\ pc = "start"
    /\ cmd = "load_qrels"
    /\ file \in QrelFiles
    /\ qrels = NoValue
    /\ result = NoValue
    /\ input = NoValue
    /\ responses = NoValue
    /\ run_id = NoValue
    /\ run = NoValue
    /\ errors = NoValue
    /\ loaded = NoValue
    /\ skipped = NoValue
    /\ log = <<>>
    /\ mode = NoValue
    /\ metrics = NoValue
    /\ targets = NoValue
    /\ report = NoValue

\* qrels, _metadata = load_qrels(qrels_file)
UnpackQrels ==
    /\ pc = "start"
    /\ LET value == load_qrels_value(file)
       IN  /\ Len(value.items) = 2
           /\ qrels' = value.items[1]
    /\ pc' = "unpacked"
    /\ UNCHANGED <<cmd, input, responses, run_id, run, errors, file, loaded, skipped,
                   result, log, mode, kpiVars>>

\* qrels = load_qrels(qrels_path)
HoldQrels ==
    /\ pc = "start"
    /\ qrels' = load_qrels_value(file)
    /\ pc' = "held"
    /\ UNCHANGED <<cmd, input, responses, run_id, run, errors, file, loaded, skipped,
                   result, log, mode, kpiVars>>

\* len(qrels.entries), len(qrels.get_query_ids())
UseQrels ==
    /\ pc \in {"unpacked", "held"}
    /\ result' = QrelsAttributes(qrels)
    /\ pc' = "used"
    /\ log' = Append(log, pc)
    /\ UNCHANGED <<cmd, input, responses, run_id, run, errors, file, loaded, skipped,
                   qrels, mode, kpiVars>>

NextQrelsValue == UnpackQrels \/ HoldQrels \/ UseQrels

SpecQrelsValue == InitQrelsValue /\ [][NextQrelsValue]_vars

-----------------------------------------------------------------------------
(* Claims on SpecQrelsValue                                                *)

\* C26: load_qrels returns the judgements collection itself: for a file with
\* at least one well-formed line, the value returned, held under one name,
\* exposes a non-empty entries list, and get_query_ids() on it returns the
\* non-empty set of the query ids of the entries.
C26_ReturnsCollection ==
    (pc = "used" /\ log = <<"held">> /\ JudgementLines # <<>>) =>
        /\ ~IsRaised(result)
        /\ result.entries # <<>>
        /\ result.query_ids # {}
        /\ result.query_ids = {result.entries[i].query_id :
                                  i \in 1..Len(result.entries)}


-----------------------------------------------------------------------------
(* Specification SpecScoring: the scoring step of the commands that        *)
(* produce a KPI report (score run, pipeline run, pipeline run-all,        *)
(* pipeline benchmark), from the run and judgements to the report          *)

HitrateKey == <<"hitrate_10">>

\* the metrics configured for trec_eval
ScoringMetrics == <<NdcgCut10, RecipRank>>

\* metrics = trec_eval.evaluate(qrels_path, run_file), the binary at hand
evaluate(entries, rows) ==
    InMicro(parse_output(trec_eval_stdout(entries, rows, DefaultFlags, ScoringMetrics)))

\* the float of a ratio, in metric units
AsFloat(ratio) == (ratio.num * MicroScale) \div ratio.den

\* metrics["hitrate_10"] = hitrate_10
SetItem(d, key, value) ==
    [k \in DOMAIN d \cup {key} |-> IF k = key THEN value ELSE d[k]]

ReportCommands ==
    {"score run", "pipeline run", "pipeline run-all", "pipeline benchmark"}

InitScoring ==
    /\ pc = "start"
    /\ cmd \in ReportCommands
    /\ run \in EvalRuns
    /\ qrels \in EvalQrels
    /\ targets \in PartialMaps({HitrateKey, NdcgCut10}, {MicroScale \div 2})
    /\ metrics = NoValue
    /\ report = NoValue
    /\ result = NoValue
    /\ input = NoValue
    /\ responses = NoValue
    /\ run_id = NoValue
    /\ errors = NoValue
    /\ file = NoValue
    /\ loaded = NoValue
    /\ skipped = NoValue
    /\ log = <<>>
    /\ mode = NoValue

scoringFrame ==
    <<cmd, input, responses, run_id, run, errors, file, loaded, skipped, qrels,
      result, log, mode, targets>>

\* score run: evaluate, compute_hitrate_10, metrics["hitrate_10"], create_report
ScoreRun ==
    /\ pc = "start"
    /\ cmd = "score run"
    /\ metrics' = SetItem(evaluate(qrels, run), HitrateKey,
                          AsFloat(compute_hitrate_10(run, qrels)))
    /\ report' = create_report(metrics', targets)
    /\ pc' = "reported"
    /\ UNCHANGED scoringFrame

\* pipeline run, steps 4 and 5: evaluate, create_report
PipelineRun ==
    /\ pc = "start"
    /\ cmd = "pipeline run"
    /\ metrics' = evaluate(qrels, run)
    /\ report' = create_report(metrics', targets)
    /\ pc' = "reported"
    /\ UNCHANGED scoringFrame

\* pipeline run-all, the scoring of one mode: evaluate, create_report
PipelineRunAll ==
    /\ pc = "start"
    /\ cmd = "pipeline run-all"
    /\ metrics' = evaluate(qrels, run)
    /\ report' = create_report(metrics', targets)
    /\ pc' = "reported"
    /\ UNCHANGED scoringFrame

\* pipeline benchmark, run_pipeline_for_level: evaluate, create_report
PipelineBenchmark ==
    /\ pc = "start"
    /\ cmd = "pipeline benchmark"
    /\ metrics' = evaluate(qrels, run)
    /\ report' = create_report(metrics', targets)
    /\ pc' = "reported"
    /\ UNCHANGED scoringFrame

NextScoring == ScoreRun \/ PipelineRun \/ PipelineRunAll \/ PipelineBenchmark

SpecScoring == InitScoring /\ [][NextScoring]_vars

-----------------------------------------------------------------------------
(* Claims on SpecScoring                                                   *)

\* C27: in every command that produces a KPI report the mapping passed to
\* create_report contains hitrate_10, equal to compute_hitrate_10 of the run
\* and the judgements.
C27_HitrateInEveryReport ==
    pc = "reported" =>
        /\ HitrateKey \in DOMAIN metrics
        /\ LET h == compute_hitrate_10(run, qrels)
           IN  metrics[HitrateKey] = (h.num * MicroScale) \div h.den


-----------------------------------------------------------------------------
(* Specification SpecBuildValidate: build_trec_run on a responses mapping, *)
(* then TrecRun.validate_format on the run built                           *)

\* errors = trec_run.validate_format()
ValidateBuilt ==
    /\ pc = "built"
    /\ errors' = validate_format(run)
    /\ pc' = "validated"
    /\ UNCHANGED <<cmd, input, responses, run_id, run, file, loaded, skipped, qrels,
                   result, log, mode, kpiVars>>

NextBuildValidate == Build \/ ValidateBuilt

SpecBuildValidate == InitRunIO /\ [][NextBuildValidate]_vars

\* C29: a run built by build_trec_run passes the structural checks of
\* validate_format: no query has more than 100 rows and the ranks of each
\* query are exactly 1..N; the only errors validate_format can report for it
\* are increasing scores.
C29_BuiltRunStructurallyValid ==
    pc = "validated" =>
        /\ \A q \in RunQueries :
            /\ RowCount(q) <= 100
            /\ RanksOfQuery(q) = 1..RowCount(q)
        /\ \A k \in 1..Len(errors) : errors[k].kind = "increasing_scores"
        /\ errors # <<>> =>
            \E i \in 1..Len(run) : \E j \in 1..Len(run) :
                /\ run[i].query_id = run[j].query_id
                /\ run[j].rank = run[i].rank + 1
                /\ run[i].score < run[j].score

\* C29 witness: a query of more than 100 segments has been built into 100
\* rows of ranks 1..100, for which validate_format reports nothing
C29_Witness ==
    /\ pc = "validated"
    /\ Len(responses) = 1
    /\ Len(responses[1].segments) > 100
    /\ Len(run) = 100
    /\ run[100].rank = 100
    /\ errors = <<>>


-----------------------------------------------------------------------------
(* The shared run model: shared/evaluation/runs.py                         *)

SharedMaxRank == 100    \* rank: le=100

\* the shared TrecRunRow of a CLI row, field by field
SharedRow(row) ==
    [topic_id |-> row.query_id, q0 |-> row.q0, segment_id |-> row.doc_id,
     rank |-> row.rank, score |-> row.score, run_id |-> row.run_id]

\* the field constraints of the shared TrecRunRow: rank ge=1, le=100
SharedRowValid(row) == row.rank >= 1 /\ row.rank <= SharedMaxRank

\* mutant: equal scores at adjacent ranks are refused as well
SharedScoreIncreasesOrTies(previous_score, current_score) ==
    current_score >= previous_score

\* current_score > previous_score + eps
SharedScoreIncreases(previous_score, current_score) ==
    current_score > previous_score + Epsilon

\* TrecRun.validate_monotonicity: the run, or the ValueError of the first
\* topic with a duplicate rank or a score increase
validate_monotonicity(rows) ==
    LET firsts == SelectSeq(Indices(rows), LAMBDA i :
                      \A j \in 1..(i - 1) : rows[j].topic_id # rows[i].topic_id)
        sorted(k) == SortedByRank(SelectSeq(rows, LAMBDA r :
                                     r.topic_id = rows[firsts[k]].topic_id))
        duplicate(k) == \E i \in 2..Len(sorted(k)) :
                            sorted(k)[i].rank = sorted(k)[i - 1].rank
        increase(k) == \E i \in 2..Len(sorted(k)) :
                           SharedScoreIncreases(sorted(k)[i - 1].score,
                                                sorted(k)[i].score)
        failing == {k \in 1..Len(firsts) : duplicate(k) \/ increase(k)}
        first == CHOOSE k \in failing : \A other \in failing : k <= other
    IN  IF failing = {} THEN [rows |-> rows]
        ELSE Exception("ValueError",
                       IF duplicate(first) THEN <<"Duplicate rank">>
                       ELSE <<"Score monotonicity violation">>)

\* TrecRun(rows=[TrecRunRow(...), ...]) of the shared model: the run, or the
\* error of the row or run validation
SharedTrecRun(rows) ==
    LET shared_rows == [i \in 1..Len(rows) |-> SharedRow(rows[i])]
    IN  IF \E i \in 1..Len(rows) : ~SharedRowValid(shared_rows[i])
        THEN Exception("ValidationError", <<"rank">>)
        ELSE validate_monotonicity(shared_rows)

-----------------------------------------------------------------------------
(* Specification SpecSharedRun: validate_format on a run of the CLI, then  *)
(* the same rows given to the shared TrecRun model                         *)

MapToShared ==
    /\ pc = "validated"
    /\ result' = SharedTrecRun(run)
    /\ pc' = "mapped"
    /\ UNCHANGED <<cmd, input, responses, run_id, run, errors, file, loaded, skipped,
                   qrels, log, mode, kpiVars>>

NextSharedRun == Validate \/ MapToShared

SpecSharedRun == InitValidate /\ [][NextSharedRun]_vars

\* C30: every run for which validate_format of the CLI returns no error is
\* accepted by the shared TrecRun model when its rows are mapped field by
\* field: ranks within 1..100, no rank twice in a topic, no score increase
\* beyond eps.
C30_CliValidImpliesSharedValid ==
    (pc = "mapped" /\ errors = <<>>) =>
        /\ ~IsRaised(result)
        /\ Len(result.rows) = Len(run)
        /\ \A i \in 1..Len(run) :
            /\ result.rows[i].topic_id = run[i].query_id
            /\ result.rows[i].segment_id = run[i].doc_id
            /\ result.rows[i].rank \in 1..100

\* C30 witness: a run of two rows of one query with equal scores, which
\* validate_format accepts, has been accepted by the shared model
C30_Witness ==
    /\ pc = "mapped"
    /\ errors = <<>>
    /\ Len(run) = 2
    /\ run[1].query_id = run[2].query_id
    /\ run[1].score = run[2].score
    /\ ~IsRaised(result)

=============================================================================
